---- MODULE Spec2Model ----
(***************************************************************************)
(* Simulated PLC runtime (plc-sim): tags, PLC state, the scan cycle of     *)
(* PLC.step, the Simulation scheduler, the MQTT bridge, the Door PLC with  *)
(* its physical-environment module, the Oxygen PLC state and the Modbus    *)
(* address map.                                                            *)
(*                                                                         *)
(* Python values are modelled as records [ty, v]: ty is the runtime type   *)
(* ("bool", "int", "float", "str", "none") and v an integer (a bool is 0   *)
(* or 1, as in Python where True == 1).  Time is counted in units of the   *)
(* scheduler's wall-clock period (SimulationConfig.dt = 0.5 s).            *)
(***************************************************************************)
EXTENDS Integers, Sequences, FiniteSets, TLC

VARIABLES
    plc_state,        \* Door_PLC.plc_state: tag name -> Tag
    pc,               \* position of the thread running Simulation.run
    cycle,            \* number of completed iterations of the while loop
    error,            \* exception that left Simulation.run ("none" if none)
    door_open,        \* PhysicalEnvironment.door_open[0], in units of 12.5 %
    door_motors,      \* PhysicalEnvironment.door_motors[0]
    mqtt_cfg,         \* constructor inputs of the MQTT bridge and its mappings
    topic_mappings,   \* MQTT_IO_Module.topic_mappings: tag name -> mapping
    pending_inputs,   \* MQTT_IO_Module.pending_inputs: tag name -> payload
    pending_inputs_lock, \* holder of MQTT_IO_Module.pending_inputs_lock: "free" or "plc"
    next_publish_time,\* MQTT_IO_Module._next_publish_time
    client,           \* state of the paho client: "none", "running", "dead", "stopped"
    callback,         \* the message _on_message has decoded and not yet staged
    now,              \* time.monotonic()
    stepLog,          \* history: phases run so far in the current PLC.step
    startLog,         \* history: modules whose start_module PLC.start has called
    nmsgs,            \* history: number of messages delivered to _on_message
    lastMsg,          \* history: per tag, the last payload staged since the last
                      \* drain and the number of payloads staged since then
    drained,          \* history: what the last MQTT read_inputs took from the pending map
    pendCycle,        \* history: cycle in which each pending payload was staged
    prevCall,         \* history: the write_outputs call before the last one
    lastCall          \* history: the last MQTT write_outputs call

mainVars == <<plc_state, pc, cycle, error, door_open, door_motors, mqtt_cfg,
              topic_mappings, pending_inputs, pending_inputs_lock, next_publish_time,
              client, callback, now, stepLog, startLog, nmsgs, lastMsg, drained, pendCycle,
              prevCall, lastCall>>

VARIABLES
    oxy_state,        \* Oxygen_PLC.plc_state: tag name -> Tag
    oxy_pc,           \* position of the thread stepping the Oxygen PLC
    oxy_cycle,        \* number of completed steps of the Oxygen PLC
    oxy_nodes,        \* OxygenOPCUAModule: value of the node of each variable
    oxy_asked,        \* names of the variables added with writable=True
    o2_supply_valve,  \* PhysicalEnvironment.o2_supply_valve
    oxy_writes        \* history: number of writes made by OPC UA clients

oxyVars == <<oxy_state, oxy_pc, oxy_cycle, oxy_nodes, oxy_asked, o2_supply_valve,
             oxy_writes>>

VARIABLES
    mb_tags,          \* plc_state.tags() of the state a Modbus module is started with
    mb_segments,      \* ModbusMap.coils, discrete_inputs, holding_registers, input_registers
    mb_builds,        \* history: number of calls of _create_mapping
    mb_value,         \* tag.value of each tag of mb_tags
    mb_blocks,        \* self.co, self.di, self.hr, self.ir of the module last started
    mb_error,         \* start_module has raised
    mb_ops,           \* history: number of calls on the started module
    mb_lastOp,        \* history: the last call
    mb_seen           \* history: what read_inputs calls have met

mapVars == <<mb_tags, mb_segments, mb_builds, mb_value, mb_blocks, mb_error, mb_ops,
             mb_lastOp, mb_seen>>

VARIABLES
    pid_args,         \* arguments of _pid_controller that its caller keeps fixed
    pid_prev_err,     \* prev_err as the caller persists it between calls
    pid_i,            \* the integral as the caller persists it between calls
    pid_calls,        \* history: number of calls of _pid_controller
    pid_prevCall,     \* history: the call before the last one
    pid_lastCall      \* history: the last call, its arguments and what it returned

pidVars == <<pid_args, pid_prev_err, pid_i, pid_calls, pid_prevCall, pid_lastCall>>

VARIABLES
    st_decl,          \* the tags a PLC_State subclass creates in _create_tags, in order
    st_dict,          \* __dict__ of the constructed state: its tags in insertion order
    st_status,        \* "declared", "created", or the exception PLC.__init__ raised
    st_sets,          \* history: number of calls of Tag.set
    st_lastSet        \* history: the last call of Tag.set

stateVars == <<st_decl, st_dict, st_status, st_sets, st_lastSet>>

VARIABLES
    br_modbus,        \* a Modbus_IO_Module: are _loop and _thread set
    br_mqtt,          \* an MQTT_IO_Module: its client attribute
    br_opcua,         \* an OPCUA_IO_Module: its server
    br_ops,           \* history: number of start_module and stop_module calls
    br_lastStop       \* history: the last stop_module call

bridgeVars == <<br_modbus, br_mqtt, br_opcua, br_ops, br_lastStop>>

VARIABLES
    fl_tag,           \* value of a writable float tag, in 1/100000
    fl_hr,            \* self.hr of the Modbus module the tag is mapped in
    fl_pc,            \* "set", "written" (write_outputs done) or "read" (read_inputs done)
    fl_got            \* the value read_inputs gave the tag: sign and m * 2^e

floatVars == <<fl_tag, fl_hr, fl_pc, fl_got>>

VARIABLES
    lp_pc,            \* where the scan thread is in the Modbus module's methods
    lp_thread,        \* the server thread: "none", "init", "run" or "ended"
    lp_ref,           \* self._thread is set
    lp_loop,          \* self._loop is set
    lp_started,       \* self._started_evt
    lp_queue,         \* the callbacks the event loop has still to run
    lp_running,       \* the callback the event loop is running
    lp_shared,        \* the server's context holds the module's present blocks
    lp_reg,           \* the register of the tag in the module's present block
    lp_tag,           \* the value of the writable int tag
    lp_call,          \* done and result of the _run_on_loop call in progress
    lp_ops,           \* the number of _run_on_loop calls made
    lp_reqs,          \* the number of client requests received
    lp_starts,        \* the number of start_module calls made
    lp_last,          \* how the last _run_on_loop call ended
    lp_access,        \* the last block access made for the scan thread
    lp_start,         \* how the last start_module call ended
    lp_stop           \* how stop_module ended

loopVars == <<lp_pc, lp_thread, lp_ref, lp_loop, lp_started, lp_queue, lp_running,
              lp_shared, lp_reg, lp_tag, lp_call, lp_ops, lp_reqs, lp_starts,
              lp_last, lp_access, lp_start, lp_stop>>

VARIABLES
    rg_tag,           \* datatype of a writable tag mapped by a Modbus module
    rg_value,         \* the tag's value
    rg_blocks,        \* the module's four blocks
    rg_pc,            \* "set", "written", "raised" (write_outputs) or "read"
    rg_before,        \* the tag's value when write_outputs was called
    rg_client         \* a client has written the tag's coil or register

regVars == <<rg_tag, rg_value, rg_blocks, rg_pc, rg_before, rg_client>>

VARIABLES
    ec_tag,           \* a tag an MQTT bridge has a mapping for
    ec_mapping,       \* the MQTTTagMapping of the tag
    ec_pending,       \* MQTT_IO_Module.pending_inputs: tag name -> payload
    ec_inflight,      \* payloads the broker has still to deliver to the bridge
    ec_ops,           \* number of steps taken
    ec_last           \* history: the last step

echoVars == <<ec_tag, ec_mapping, ec_pending, ec_inflight, ec_ops, ec_last>>

VARIABLES
    sm_pc,            \* position of the thread in Simulation.run: [at, idx]
    sm_cycle,         \* completed iterations of the while loop
    sm_exit,          \* what left the try body of Simulation.run
    sm_started,       \* history: the entities whose start() has returned
    sm_stops          \* history: the stop() calls made, [entity, raised]

simVars == <<sm_pc, sm_cycle, sm_exit, sm_started, sm_stops>>

VARIABLES
    dr_state,         \* the tags of the Door PLC
    dr_nodes,         \* the values of the OPC-UA nodes of DoorOPCUAModule
    dr_open,          \* PhysicalEnvironment.door_open[0]
    dr_motors,        \* PhysicalEnvironment.door_motors[0]
    dr_pc             \* the step of the tick that comes next

doorVars == <<dr_state, dr_nodes, dr_open, dr_motors, dr_pc>>

VARIABLES
    mu_modules,       \* the PLC's module list: the bridges in scan order
    mu_tag,           \* the value of the writable int tag both bridges expose
    mu_node,          \* the value of the tag's OPC-UA node
    mu_reg,           \* the tag's Modbus holding register
    mu_pc,            \* the step of the scan that comes next: [at, idx]
    mu_client,        \* history: the client write made since the last scan
    mu_seen,          \* history: the tag value the last control logic read
    mu_scans          \* completed scans

multiVars == <<mu_modules, mu_tag, mu_node, mu_reg, mu_pc, mu_client, mu_seen, mu_scans>>

vars == <<mainVars, oxyVars, mapVars, pidVars, stateVars, bridgeVars, floatVars, loopVars, regVars, echoVars, simVars, doorVars,
         multiVars>>

\* the variables each specification leaves alone
restOfMain ==
    <<oxyVars, mapVars, pidVars, stateVars, bridgeVars, floatVars, loopVars, regVars, echoVars, simVars, doorVars, multiVars>>
restOfOxy ==
    <<mainVars, mapVars, pidVars, stateVars, bridgeVars, floatVars, loopVars, regVars, echoVars, simVars, doorVars, multiVars>>
restOfMap ==
    <<mainVars, oxyVars, pidVars, stateVars, bridgeVars, floatVars, loopVars, regVars, echoVars, simVars, doorVars, multiVars>>
restOfPid ==
    <<mainVars, oxyVars, mapVars, stateVars, bridgeVars, floatVars, loopVars, regVars, echoVars, simVars, doorVars, multiVars>>
restOfState ==
    <<mainVars, oxyVars, mapVars, pidVars, bridgeVars, floatVars, loopVars, regVars, echoVars, simVars, doorVars, multiVars>>
restOfBridges ==
    <<mainVars, oxyVars, mapVars, pidVars, stateVars, floatVars, loopVars, regVars, echoVars, simVars, doorVars, multiVars>>
restOfFloat ==
    <<mainVars, oxyVars, mapVars, pidVars, stateVars, bridgeVars, loopVars, regVars, echoVars, simVars, doorVars, multiVars>>
restOfLoop ==
    <<mainVars, oxyVars, mapVars, pidVars, stateVars, bridgeVars, floatVars, regVars, echoVars, simVars, doorVars, multiVars>>
restOfReg ==
    <<mainVars, oxyVars, mapVars, pidVars, stateVars, bridgeVars, floatVars, loopVars, echoVars, simVars, doorVars, multiVars>>
restOfEcho ==
    <<mainVars, oxyVars, mapVars, pidVars, stateVars, bridgeVars, floatVars, loopVars, regVars, simVars, doorVars, multiVars>>
restOfSim ==
    <<mainVars, oxyVars, mapVars, pidVars, stateVars, bridgeVars, floatVars, loopVars, regVars, echoVars, doorVars, multiVars>>
restOfDoor ==
    <<mainVars, oxyVars, mapVars, pidVars, stateVars, bridgeVars, floatVars, loopVars, regVars, echoVars, simVars, multiVars>>
restOfMulti == <<mainVars, oxyVars, mapVars, pidVars, stateVars, bridgeVars, floatVars, loopVars, regVars, echoVars, simVars, doorVars>>

-----------------------------------------------------------------------------
(* Bounds of the model *)

MaxCycles == 1
MaxMsgs == 2
MaxTime == 2

-----------------------------------------------------------------------------
(* Python values *)

BoolV(b) == [ty |-> "bool", v |-> IF b THEN 1 ELSE 0]
IntV(n) == [ty |-> "int", v |-> n]
NoneV == [ty |-> "none", v |-> 0]

\* truth value of a Python value (bool(x))
Truthy(x) == x.v # 0

\* Python's ==: None equals only None, numbers compare by value
PyEq(a, b) == (a.ty = "none") = (b.ty = "none") /\ a.v = b.v

\* str(value): booleans print as "True"/"False", integers in decimal
PyStr(x) ==
    CASE x.ty = "bool" -> (IF x.v = 1 THEN "True" ELSE "False")
      [] x.ty = "none" -> "None"
      [] OTHER -> ToString(x.v)

-----------------------------------------------------------------------------
(* Tag and PLC_State (common/PLC.py) *)

Tag(datatype, initial_value, writable) ==
    [datatype |-> datatype, value |-> initial_value, writable |-> writable]

\* Tag.set: assigns the value, whatever its type
TagSet(tag, value) == [tag EXCEPT !.value = value]

TagGet(tag) == tag.value

\* Door_PLC_State._create_tags, door 1 (doors 2..4 are copies of it)
DoorTagOrder == <<"Door_1_Opened", "Door_1_Closed", "Door_1_Target", "Door_1_Motor">>

DoorTagNames == {DoorTagOrder[i] : i \in 1..Len(DoorTagOrder)}

Door_PLC_State ==
    [n \in DoorTagNames |->
        CASE n = "Door_1_Opened" -> Tag("bool", BoolV(TRUE), FALSE)
          [] n = "Door_1_Closed" -> Tag("bool", BoolV(FALSE), FALSE)
          [] n = "Door_1_Target" -> Tag("bool", BoolV(TRUE), TRUE)
          [] n = "Door_1_Motor" -> Tag("int", IntV(0), TRUE)]

\* a _set_motor that keeps the motor running towards the target
SetMotorNeverOff(opened_sensor_value, closed_sensor_value, desired_open) ==
    IF desired_open THEN 2 ELSE 1

\* Door_PLC._set_motor: the value given to the motor tag
SetMotor(opened_sensor_value, closed_sensor_value, desired_open) ==
    IF opened_sensor_value /\ closed_sensor_value THEN 0
    ELSE IF desired_open /\ ~opened_sensor_value THEN 2
    ELSE IF ~desired_open /\ ~closed_sensor_value THEN 1
    ELSE 0

\* Door_PLC._control_logic
DoorControlLogic(st) ==
    [st EXCEPT !["Door_1_Motor"] =
        TagSet(@, IntV(SetMotor(Truthy(TagGet(st["Door_1_Opened"])),
                                Truthy(TagGet(st["Door_1_Closed"])),
                                Truthy(TagGet(st["Door_1_Target"])))))]

-----------------------------------------------------------------------------
(* Physical environment (physenv.py) and its door module (door_plc.py) *)

\* door_open = 100.0 in units of 12.5 % (one tick of a motor at dt = 0.5 s)
DoorFull == 8

\* util.clamp
Clamp(x, lo, hi) == IF x < lo THEN lo ELSE IF x > hi THEN hi ELSE x

\* PhysicalEnvironment.step_doors for door 1 with dt = 0.5
StepDoors(open, motor) ==
    LET delta == CASE motor = "opening" -> 1
                   [] motor = "closing" -> -1
                   [] OTHER -> 0
    IN Clamp(open + delta, 0, DoorFull)

\* DoorPhysicalEnvModule.read_inputs
DoorPhysReadInputs(st, open) ==
    [st EXCEPT !["Door_1_Opened"] = TagSet(@, BoolV(open >= DoorFull)),
               !["Door_1_Closed"] = TagSet(@, BoolV(open <= 0))]

\* DoorPhysicalEnvModule.to_motor_state; "ValueError" stands for the raise
ToMotorState(state) ==
    CASE state = 0 -> "off"
      [] state = 1 -> "closing"
      [] state = 2 -> "opening"
      [] OTHER -> "ValueError"

-----------------------------------------------------------------------------
(* MQTT bridge (common/mqtt_module.py) *)

\* publish_interval = 1.0 s (OxyMQTTModule), in units of 0.5 s
PublishInterval == 2

\* payloads an MQTT client sends
Payloads == {"Yes", "5"}

\* str.lower() on the payloads
Lower(p) ==
    CASE p = "Yes" -> "yes" [] p = "True" -> "true" [] p = "False" -> "false"
      [] OTHER -> p

\* int(payload): the payloads that are integer literals, and their values
IsIntLiteral(p) == p \in {"0", "1", "2", "5"}
IntOf(p) == CASE p = "5" -> 5 [] p = "1" -> 1 [] p = "2" -> 2 [] OTHER -> 0

\* float(payload): value in hundredths; every integer literal is a float literal
IsFloatLiteral(p) == IsIntLiteral(p)
FloatOf(p) == 100 * IntOf(p)

\* str(payload): the string itself, coded by a number
StrCode(p) == CASE p = "Yes" -> 1 [] p = "5" -> 2 [] OTHER -> 0

\* the conversion of MQTTTagMapping.set_tag_from_payload: [ok, value];
\* ok = FALSE stands for the ValueError of float(), int() or the else branch
Decode(datatype, payload) ==
    CASE datatype = "float" ->
            [ok |-> IsFloatLiteral(payload), value |-> [ty |-> "float", v |-> FloatOf(payload)]]
      [] datatype = "int" ->
            [ok |-> IsIntLiteral(payload), value |-> IntV(IntOf(payload))]
      [] datatype = "bool" ->
            [ok |-> TRUE, value |-> BoolV(Lower(payload) \in {"true", "1", "yes"})]
      [] datatype = "str" ->
            [ok |-> TRUE, value |-> [ty |-> "str", v |-> StrCode(payload)]]
      [] OTHER -> [ok |-> FALSE, value |-> NoneV]

\* MQTTTagMapping.set_tag_from_payload: [raised, tag]
SetTagFromPayload(mapping, tag, payload) ==
    IF ~mapping.writable THEN [raised |-> FALSE, tag |-> tag]
    ELSE LET d == Decode(tag.datatype, payload)
         IN IF d.ok THEN [raised |-> FALSE, tag |-> TagSet(tag, d.value)]
            ELSE [raised |-> TRUE, tag |-> tag]

\* MQTTTagMapping.get_payload_to_send: does the mapping produce a payload
HasPayloadToSend(mapping, tag, only_if_changed) ==
    ~only_if_changed \/ ~PyEq(TagGet(tag), mapping.last_value)

\* the mappings a subclass's _create_mappings may return: per tag no mapping,
\* MQTTTagMapping(topic, tag) or MQTTTagMapping(topic, tag, writable=True)
MappingConfigs ==
    { [n \in DoorTagNames |->
         CASE n = "Door_1_Opened" -> o [] n = "Door_1_Closed" -> "ro"
           [] n = "Door_1_Target" -> "rw" [] n = "Door_1_Motor" -> m]
      : o \in {"none", "ro", "rw"}, m \in {"ro", "rw"} }

\* MQTTTagMapping.__init__ for every mapping of a configuration
CreateMappings(maps) ==
    [n \in {x \in DoorTagNames : maps[x] # "none"} |->
        [writable |-> (maps[n] = "rw"), last_value |-> NoneV]]

EmptyMap == [n \in {} |-> 0]

\* dict[key] = value
DictSet(d, key, value) ==
    [k \in DOMAIN d \cup {key} |-> IF k = key THEN value ELSE d[k]]

\* a staging that keeps the payload already pending for the tag
StagePendingKeepFirst(pending, n, payload) ==
    IF n \in DOMAIN pending THEN pending ELSE DictSet(pending, n, payload)

\* _on_message: self.pending_inputs[mqtt_topic.tag] = payload
StagePending(pending, n, payload) == DictSet(pending, n, payload)

\* MQTT_IO_Module._on_message for a message on the topic of tag n, up to the
\* with statement: the PLC state after mqtt_topic.set_tag_from_payload(payload)
\* and whether the callback goes on to stage the payload; raised = TRUE stands
\* for the exception of the conversion, which leaves the callback
OnMessageEffect(st, mappings, n, payload) ==
    IF ~mappings[n].writable
    THEN [raised |-> FALSE, st |-> st, stage |-> FALSE]
    ELSE LET r == SetTagFromPayload(mappings[n], st[n], payload)
         IN IF r.raised
            THEN [raised |-> TRUE, st |-> st, stage |-> FALSE]
            ELSE [raised |-> FALSE, st |-> [st EXCEPT ![n] = r.tag], stage |-> TRUE]

\* the loop of MQTT_IO_Module.read_inputs over pending_inputs: the PLC state
\* after it (the staged payloads were decoded once by _on_message, so the
\* conversion does not raise here)
MqttApplyPending(st, mappings, pending) ==
    [n \in DOMAIN st |->
        IF n \in DOMAIN pending /\ n \in DOMAIN mappings
        THEN SetTagFromPayload(mappings[n], st[n], pending[n]).tag
        ELSE st[n]]

\* a lock that is granted whoever holds it
CanAcquireAlways(lock) == TRUE

\* threading.Lock.acquire (entering "with self.pending_inputs_lock"): blocks
\* while another thread holds the lock
CanAcquire(lock) == lock = "free"

\* a read_inputs that leaves the pending map as it is
MqttKeepPending(pending) == pending

\* pending_inputs.clear()
MqttClearPending(pending) == EmptyMap

\* a gate that opens on every call
PrepareToPublishAlways(t, next) == [open |-> TRUE, next |-> t + PublishInterval]

\* a gate that moves the next-allowed-time also when it is closed
PrepareToPublishPushesBack(t, next) ==
    [open |-> t >= next, next |-> t + PublishInterval]

\* MQTT_IO_Module._prepare_to_publish: [open, next]
PrepareToPublish(t, next) ==
    IF t < next THEN [open |-> FALSE, next |-> next]
    ELSE [open |-> TRUE, next |-> t + PublishInterval]

\* the tags MQTT_IO_Module.write_outputs publishes when the gate is open
\* (_publish_tag over plc_state.tags())
PublishedTags(st, mappings, only_send_changed) ==
    {n \in DOMAIN mappings : HasPayloadToSend(mappings[n], st[n], only_send_changed)}

\* a publish that does not record what it sent
MarkSentForgets(st, mappings, sent) == mappings

\* the mappings after write_outputs published the tags in sent
MarkSent(st, mappings, sent) ==
    [n \in DOMAIN mappings |->
        IF n \in sent THEN [mappings[n] EXCEPT !.last_value = TagGet(st[n])]
        ELSE mappings[n]]

-----------------------------------------------------------------------------
(* The scan cycle (PLC.step) and the scheduler (Simulation.run) *)

\* Door_PLC(modules=[<MQTT bridge>, DoorPhysicalEnvModule(env)])
Modules == <<"mqtt", "phys">>

\* a step that runs the control logic before the input scan
StepOrderControlFirst == <<"control", "input_scan", "output_update">>

\* the three calls of PLC.step, in the order it makes them
StepOrder == <<"input_scan", "control", "output_update">>

\* the phase the thread is in while it runs PLC.step
Phase == IF pc.at = "plc" THEN StepOrder[pc.k] ELSE "none"

\* the position at which phase k of PLC.step begins; after the last phase
\* PLC.step returns and Simulation.run sleeps
PhaseBegin(k) ==
    IF k > Len(StepOrder) THEN [at |-> "sleep", k |-> 0, idx |-> 0]
    ELSE [at |-> "plc", k |-> k, idx |-> IF StepOrder[k] = "control" THEN 0 ELSE 1]

\* the position after the call on module pc.idx in the loops of
\* PLC._input_scan and PLC._output_update
AfterModule ==
    IF pc.idx < Len(Modules) THEN [pc EXCEPT !.idx = pc.idx + 1]
    ELSE PhaseBegin(pc.k + 1)

NoMsg == [n |-> "none", payload |-> ""]

Stopped == [at |-> "stopped", k |-> 0, idx |-> 0]

NoCall == [n |-> 0, t |-> 0, open |-> FALSE, next |-> 0, sent |-> {},
           values |-> EmptyMap, before |-> EmptyMap]

Logged(phase, module) == Append(stepLog, [phase |-> phase, module |-> module])

InitMain ==
    /\ plc_state = Door_PLC_State
    /\ pc = [at |-> "start", k |-> 0, idx |-> 0]
    /\ cycle = 0
    /\ error = "none"
    /\ door_open = DoorFull
    /\ door_motors = "off"
    /\ mqtt_cfg \in [maps : MappingConfigs, only_send_changed : BOOLEAN]
    /\ topic_mappings = EmptyMap
    /\ pending_inputs = EmptyMap
    /\ pending_inputs_lock = "free"
    /\ next_publish_time = 0
    /\ client = "none"
    /\ callback = NoMsg
    /\ now = 0
    /\ stepLog = <<>>
    /\ startLog = <<>>
    /\ nmsgs = 0
    /\ lastMsg = EmptyMap
    /\ drained = EmptyMap
    /\ pendCycle = EmptyMap
    /\ prevCall = NoCall
    /\ lastCall = NoCall

\* PLC.start: start_module of every module in list order; an exception of a
\* start_module leaves the loop.  failing is the set of modules whose
\* start_module raises; the result is [log, raised], log the modules whose
\* start_module was called
RECURSIVE StartModules(_, _)
StartModules(modules, failing) ==
    IF modules = <<>> THEN [log |-> <<>>, raised |-> FALSE]
    ELSE IF Head(modules) \in failing
         THEN [log |-> <<Head(modules)>>, raised |-> TRUE]
         ELSE LET rest == StartModules(Tail(modules), failing)
              IN [log |-> <<Head(modules)>> \o rest.log, raised |-> rest.raised]

\* Simulation.run: entity.start() for every entity.  PLC.start calls
\* MQTT_IO_Module.start_module, which creates the mappings and connects, and
\* DoorPhysicalEnvModule.start_module, which does nothing; connect() raises
\* when the broker cannot be reached, and run's finally clause then stops
\* the entities.
SimStart ==
    /\ pc.at = "start"
    /\ topic_mappings' = CreateMappings(mqtt_cfg.maps)
    /\ \E failing \in SUBSET {"mqtt"} :
         LET r == StartModules(Modules, failing)
         IN /\ startLog' = r.log
            /\ IF ~r.raised
               THEN /\ client' = "running"
                    /\ pc' = [at |-> "phys", k |-> 0, idx |-> 0]
                    /\ error' = error
               ELSE /\ client' = "stopped"
                    /\ pc' = Stopped
                    /\ error' = "ConnectionRefusedError"
    /\ UNCHANGED <<plc_state, cycle, door_open, door_motors, mqtt_cfg, pending_inputs_lock,
                   pending_inputs, next_publish_time, callback, now, stepLog, nmsgs,
                   lastMsg, drained, pendCycle, prevCall, lastCall>>

\* PhysicalEnvironment.step(dt), the first entity of the loop; PLC.step follows
PhysStep ==
    /\ pc.at = "phys"
    /\ door_open' = StepDoors(door_open, door_motors)
    /\ pc' = PhaseBegin(1)
    /\ stepLog' = <<>>
    /\ UNCHANGED <<plc_state, cycle, error, door_motors, mqtt_cfg, startLog, pending_inputs_lock, topic_mappings,
                   pending_inputs, next_publish_time, client, callback, now, nmsgs, lastMsg, drained,
                   pendCycle, prevCall, lastCall>>

\* PLC._input_scan: MQTT_IO_Module.read_inputs up to the end of its loop: the
\* lock is taken and every pending payload is applied to its tag
MqttReadInputs ==
    /\ Phase = "input_scan"
    /\ Modules[pc.idx] = "mqtt"
    /\ pending_inputs_lock # "plc"
    /\ CanAcquire(pending_inputs_lock)
    /\ pending_inputs_lock' = "plc"
    /\ plc_state' = MqttApplyPending(plc_state, topic_mappings, pending_inputs)
    /\ drained' = [n \in DOMAIN pending_inputs |->
                     [payload |-> pending_inputs[n], cycle |-> pendCycle[n],
                      count |-> lastMsg[n].count]]
    /\ UNCHANGED <<pc, cycle, error, door_open, door_motors, mqtt_cfg, startLog, topic_mappings,
                   pending_inputs, next_publish_time, client, callback, now, stepLog,
                   nmsgs, lastMsg, pendCycle, prevCall, lastCall>>

\* MQTT_IO_Module.read_inputs, the end of its with statement: the pending map
\* is cleared and the lock released
MqttReadClear ==
    /\ Phase = "input_scan"
    /\ Modules[pc.idx] = "mqtt"
    /\ pending_inputs_lock = "plc"
    /\ pending_inputs' = MqttClearPending(pending_inputs)
    /\ pending_inputs_lock' = "free"
    /\ lastMsg' = EmptyMap
    /\ pendCycle' = [n \in DOMAIN pending_inputs' |-> pendCycle[n]]
    /\ stepLog' = Logged("input_scan", "mqtt")
    /\ pc' = AfterModule
    /\ UNCHANGED <<plc_state, cycle, error, door_open, door_motors, mqtt_cfg, startLog,
                   topic_mappings, next_publish_time, client, callback, now, nmsgs,
                   drained, prevCall, lastCall>>

\* PLC._input_scan: DoorPhysicalEnvModule.read_inputs
PhysReadInputs ==
    /\ Phase = "input_scan"
    /\ Modules[pc.idx] = "phys"
    /\ plc_state' = DoorPhysReadInputs(plc_state, door_open)
    /\ stepLog' = Logged("input_scan", "phys")
    /\ pc' = AfterModule
    /\ UNCHANGED <<cycle, error, door_open, door_motors, mqtt_cfg, startLog, pending_inputs_lock, topic_mappings,
                   pending_inputs, next_publish_time, client, callback, now, nmsgs, lastMsg, drained,
                   pendCycle, prevCall, lastCall>>

\* PLC.step: self._control_logic(dt)
ControlLogic ==
    /\ Phase = "control"
    /\ plc_state' = DoorControlLogic(plc_state)
    /\ stepLog' = Logged("control", "plc")
    /\ pc' = PhaseBegin(pc.k + 1)
    /\ UNCHANGED <<cycle, error, door_open, door_motors, mqtt_cfg, startLog, pending_inputs_lock, topic_mappings,
                   pending_inputs, next_publish_time, client, callback, now, nmsgs, lastMsg, drained,
                   pendCycle, prevCall, lastCall>>

\* PLC._output_update: MQTT_IO_Module.write_outputs
MqttWriteOutputs ==
    /\ Phase = "output_update"
    /\ Modules[pc.idx] = "mqtt"
    /\ LET g == PrepareToPublish(now, next_publish_time)
           sent == IF g.open
                   THEN PublishedTags(plc_state, topic_mappings, mqtt_cfg.only_send_changed)
                   ELSE {}
       IN /\ next_publish_time' = g.next
          /\ topic_mappings' = MarkSent(plc_state, topic_mappings, sent)
          /\ prevCall' = lastCall
          /\ lastCall' = [n |-> lastCall.n + 1, t |-> now, open |-> g.open,
                          next |-> next_publish_time, sent |-> sent,
                          values |-> [n \in DOMAIN topic_mappings |-> TagGet(plc_state[n])],
                          before |-> [n \in DOMAIN topic_mappings |-> topic_mappings[n].last_value]]
    /\ stepLog' = Logged("output_update", "mqtt")
    /\ pc' = AfterModule
    /\ UNCHANGED <<plc_state, cycle, error, door_open, door_motors, mqtt_cfg, startLog, pending_inputs_lock,
                   pending_inputs, client, callback, now, nmsgs, lastMsg, drained, pendCycle>>

\* PLC._output_update: DoorPhysicalEnvModule.write_outputs.  The ValueError of
\* to_motor_state leaves PLC.step and the while loop of Simulation.run, whose
\* finally clause stops the entities.
PhysWriteOutputs ==
    /\ Phase = "output_update"
    /\ Modules[pc.idx] = "phys"
    /\ LET m == ToMotorState(TagGet(plc_state["Door_1_Motor"]).v)
       IN IF m = "ValueError"
          THEN /\ error' = "ValueError"
               /\ pc' = Stopped
               /\ client' = "stopped"
               /\ UNCHANGED <<door_motors, stepLog>>
          ELSE /\ door_motors' = m
               /\ stepLog' = Logged("output_update", "phys")
               /\ pc' = AfterModule
               /\ UNCHANGED <<error, client>>
    /\ UNCHANGED <<plc_state, cycle, door_open, mqtt_cfg, startLog, pending_inputs_lock, topic_mappings, pending_inputs,
                   next_publish_time, callback, now, nmsgs, lastMsg, drained, pendCycle, prevCall, lastCall>>

\* Simulation.run: time.sleep(self.config.dt), then the next iteration
Sleep ==
    /\ pc.at = "sleep"
    /\ cycle < MaxCycles
    /\ \E t \in (now + 1)..MaxTime : now' = t
    /\ cycle' = cycle + 1
    /\ pc' = [at |-> "phys", k |-> 0, idx |-> 0]
    /\ UNCHANGED <<plc_state, error, door_open, door_motors, mqtt_cfg, startLog, pending_inputs_lock, topic_mappings,
                   pending_inputs, next_publish_time, client, callback, stepLog, nmsgs,
                   lastMsg, drained, pendCycle, prevCall, lastCall>>

\* the client's network thread delivers a message on the topic of a mapping
\* to MQTT_IO_Module._on_message (the bridge subscribes to every mapping's
\* topic), which runs up to its with statement; an exception leaving the
\* callback ends the network thread
OnMessage ==
    /\ client = "running"
    /\ callback = NoMsg
    /\ nmsgs < MaxMsgs
    /\ \E n \in DOMAIN topic_mappings, payload \in Payloads :
         LET r == OnMessageEffect(plc_state, topic_mappings, n, payload)
         IN /\ plc_state' = r.st
            /\ client' = IF r.raised THEN "dead" ELSE client
            /\ callback' = IF r.stage THEN [n |-> n, payload |-> payload] ELSE NoMsg
    /\ nmsgs' = nmsgs + 1
    /\ UNCHANGED <<pc, cycle, error, door_open, door_motors, mqtt_cfg, startLog, pending_inputs_lock, topic_mappings,
                   pending_inputs, next_publish_time, now, stepLog, lastMsg, drained,
                   pendCycle, prevCall, lastCall>>

\* _on_message, the with statement: the payload is stored in pending_inputs
\* under pending_inputs_lock
OnMessageStage ==
    /\ callback # NoMsg
    /\ CanAcquire(pending_inputs_lock)
    /\ pending_inputs' = StagePending(pending_inputs, callback.n, callback.payload)
    /\ lastMsg' = DictSet(lastMsg, callback.n,
                     [payload |-> callback.payload,
                      count |-> IF callback.n \in DOMAIN lastMsg
                                THEN lastMsg[callback.n].count + 1 ELSE 1])
    /\ pendCycle' = DictSet(pendCycle, callback.n, cycle)
    /\ callback' = NoMsg
    /\ UNCHANGED <<plc_state, pc, cycle, error, door_open, door_motors, mqtt_cfg, startLog, pending_inputs_lock,
                   topic_mappings, next_publish_time, client, now, stepLog, nmsgs,
                   drained, prevCall, lastCall>>

\* the Oxygen PLC before its construction: the value of its variables in the
\* behaviours of the Door PLC
OxyIdle ==
    /\ oxy_state = EmptyMap
    /\ oxy_pc = [at |-> "none", k |-> 0, idx |-> 0]
    /\ oxy_cycle = 0
    /\ oxy_nodes = EmptyMap
    /\ oxy_asked = {}
    /\ o2_supply_valve = 0
    /\ oxy_writes = 0

\* no Modbus module is built in the behaviours of the Door and Oxygen PLCs
MapIdle ==
    /\ mb_tags = <<>>
    /\ mb_segments = [s \in {"coils", "discrete_inputs", "holding_registers",
                             "input_registers"} |-> EmptyMap]
    /\ mb_builds = 0
    /\ mb_value = <<>>
    /\ mb_blocks = EmptyMap
    /\ mb_error = FALSE
    /\ mb_ops = 0
    /\ mb_lastOp = "none"
    /\ mb_seen = {}

\* no call of _pid_controller is followed in the behaviours of the PLCs
PidIdle ==
    /\ pid_args = EmptyMap
    /\ pid_prev_err = 0
    /\ pid_i = 0
    /\ pid_calls = 0
    /\ pid_prevCall = EmptyMap
    /\ pid_lastCall = EmptyMap

\* no PLC state class is followed on its own in the behaviours of the PLCs
StateIdle ==
    /\ st_decl = <<>>
    /\ st_dict = <<>>
    /\ st_status = "none"
    /\ st_sets = 0
    /\ st_lastSet = EmptyMap

\* no bridge is followed on its own in the behaviours of the PLCs
BridgesIdle ==
    /\ br_modbus = "none"
    /\ br_mqtt = "none"
    /\ br_opcua = "none"
    /\ br_ops = 0
    /\ br_lastStop = EmptyMap

\* no float tag is followed through the Modbus registers
FloatIdle ==
    /\ fl_tag = 0
    /\ fl_hr = EmptyMap
    /\ fl_pc = "none"
    /\ fl_got = EmptyMap

\* a callback of the event loop: kind is "started_set", "runner", "request",
\* "stop_loop" or "grace"
Callback(kind, op, id, val) == [kind |-> kind, op |-> op, id |-> id, val |-> val]

NoCallback == Callback("none", "none", 0, 0)

NoLoopCall == [id |-> 0, op |-> "none", done |-> FALSE, result |-> 0]

NoLast == [op |-> "none", timedOut |-> FALSE, raised |-> "none", assigned |-> FALSE]

NoAccess == [n |-> 0, op |-> "none", thread |-> "none", during |-> "none", waiting |-> 0]

NoStart == [result |-> "none", written |-> FALSE, waited |-> "none", posted |-> 0]

NoStop == [result |-> "none", alive |-> FALSE]

\* the parts of the Modbus module's threads that no start_module changes
LoopRest(at, tag) ==
    /\ lp_pc = at
    /\ lp_thread = "none"
    /\ lp_ref = FALSE
    /\ lp_loop = FALSE
    /\ lp_started = FALSE
    /\ lp_queue = <<>>
    /\ lp_running = NoCallback
    /\ lp_shared = FALSE
    /\ lp_reg = 0
    /\ lp_tag = tag
    /\ lp_call = NoLoopCall
    /\ lp_ops = 0
    /\ lp_reqs = 0
    /\ lp_starts = 0
    /\ lp_last = NoLast
    /\ lp_access = NoAccess
    /\ lp_start = NoStart
    /\ lp_stop = NoStop

\* no Modbus module with a server thread exists
LoopIdle == LoopRest("none", 0)

\* no bool or int tag is followed through its coil or register
RegIdle ==
    /\ rg_tag = "none"
    /\ rg_value = NoneV
    /\ rg_blocks = EmptyMap
    /\ rg_pc = "none"
    /\ rg_before = NoneV
    /\ rg_client = FALSE

\* no MQTT bridge is followed with its broker
EchoIdle ==
    /\ ec_tag = EmptyMap
    /\ ec_mapping = EmptyMap
    /\ ec_pending = EmptyMap
    /\ ec_inflight = <<>>
    /\ ec_ops = 0
    /\ ec_last = "none"

\* no PLC with two bridges is followed
MultiIdle ==
    /\ mu_modules = <<>>
    /\ mu_tag = NoneV
    /\ mu_node = NoneV
    /\ mu_reg = <<>>
    /\ mu_pc = [at |-> "none", idx |-> 0]
    /\ mu_client = [bridge |-> "none", value |-> NoneV]
    /\ mu_seen = NoneV
    /\ mu_scans = 0

\* no door is followed tick by tick
DoorIdle ==
    /\ dr_state = <<>>
    /\ dr_nodes = <<>>
    /\ dr_open = 0
    /\ dr_motors = "none"
    /\ dr_pc = "none"

\* no Simulation is followed on its own
SimIdle ==
    /\ sm_pc = [at |-> "none", idx |-> 0]
    /\ sm_cycle = 0
    /\ sm_exit = "none"
    /\ sm_started = <<>>
    /\ sm_stops = <<>>

\* everything but the Door PLC is idle
IdleButMain == OxyIdle /\ MapIdle /\ PidIdle /\ StateIdle /\ BridgesIdle /\ FloatIdle /\ LoopIdle /\ RegIdle /\ EchoIdle /\ SimIdle /\ DoorIdle /\ MultiIdle

Init == InitMain /\ IdleButMain

Next ==
    \/ SimStart /\ UNCHANGED restOfMain
    \/ PhysStep /\ UNCHANGED restOfMain
    \/ MqttReadInputs /\ UNCHANGED restOfMain
    \/ MqttReadClear /\ UNCHANGED restOfMain
    \/ PhysReadInputs /\ UNCHANGED restOfMain
    \/ ControlLogic /\ UNCHANGED restOfMain
    \/ MqttWriteOutputs /\ UNCHANGED restOfMain
    \/ PhysWriteOutputs /\ UNCHANGED restOfMain
    \/ Sleep /\ UNCHANGED restOfMain
    \/ OnMessage /\ UNCHANGED restOfMain
    \/ OnMessageStage /\ UNCHANGED restOfMain

\* the Door PLC with an MQTT bridge and its physical-environment module
Spec == Init /\ [][Next]_vars

-----------------------------------------------------------------------------
(* Properties of the scan cycle and of the MQTT bridge, checked under Spec *)

PhaseRank(p) == CASE p = "input_scan" -> 1 [] p = "control" -> 2 [] OTHER -> 3

LogHas(phase, module) ==
    \E i \in DOMAIN stepLog : stepLog[i] = [phase |-> phase, module |-> module]

\* every module's read_inputs has returned in the current step
AllRead == \A i \in DOMAIN Modules : LogHas("input_scan", Modules[i])

\* the step in which MQTT_IO_Module.read_inputs returns
MqttReadStep == Phase = "input_scan" /\ Modules[pc.idx] = "mqtt" /\ pc' # pc

\* the step in which MQTT_IO_Module.read_inputs runs its loop
MqttApplyStep ==
    /\ Phase = "input_scan" /\ Modules[pc.idx] = "mqtt"
    /\ pending_inputs_lock # "plc" /\ pending_inputs_lock' = "plc"

DecodedFor(n, payload) == Decode(plc_state[n].datatype, payload)

\* C1: within one PLC.step every module's read_inputs returns before the
\* control logic starts and the control logic returns before any module's
\* write_outputs starts; no read_inputs runs after the control logic and no
\* write_outputs before it.
C1_ScanOrder ==
    /\ \A i, j \in DOMAIN stepLog :
          i < j => PhaseRank(stepLog[i].phase) <= PhaseRank(stepLog[j].phase)
    /\ Cardinality({i \in DOMAIN stepLog : stepLog[i].phase = "control"}) <= 1
    /\ (Phase = "control" \/ LogHas("control", "plc")) => AllRead
    /\ (Phase = "output_update" \/ \E i \in DOMAIN stepLog : stepLog[i].phase = "output_update")
          => LogHas("control", "plc")
    /\ Phase = "input_scan" => ~LogHas("control", "plc")

\* a step of the PLC that ran all three phases over all modules
C1_Witness == Len(stepLog) = 2 * Len(Modules) + 1 /\ pc.at = "sleep"

\* C2: a message delivered to _on_message never changes a tag's value: the
\* callback only stores the payload in the pending map.
C2_CallbackLeavesTags == [][nmsgs' # nmsgs => plc_state' = plc_state]_vars

\* C3: a payload staged during cycle N and not superseded has been applied to
\* its tag when the input scan of cycle N+1 completes, and the pending map
\* then holds no entry for it: read_inputs applies every pending payload and
\* empties the map, so once the input scan of a cycle is complete every
\* pending entry was staged in that same cycle.
C3_StagedAppliedByNextScan ==
    [][ /\ MqttReadStep => pending_inputs' = EmptyMap
        /\ MqttApplyStep =>
              \A n \in DOMAIN pending_inputs :
                    TagGet(plc_state'[n]) = DecodedFor(n, pending_inputs[n]).value
        /\ (pc'.at \in {"plc", "sleep"} /\ AllRead') =>
              \A n \in DOMAIN pending_inputs' : pendCycle'[n] = cycle' ]_vars

\* the input scan of a cycle has applied a payload staged in the cycle before
C3_Witness ==
    /\ pc.at = "plc" /\ AllRead
    /\ \E n \in DOMAIN drained :
          /\ drained[n].cycle + 1 = cycle
          /\ n \notin DOMAIN pending_inputs
          /\ TagGet(plc_state[n]) = DecodedFor(n, drained[n].payload).value

\* C4: an error raised by a module's read_inputs or write_outputs is
\* contained: the scheduler goes on to the next tick instead of leaving its loop.
C4_ModuleErrorContained == error = "ValueError" => pc.at # "stopped"

\* C5: no protocol bridge assigns a value to a tag whose writable flag is
\* false, whatever writable override its mapping was given: such a tag changes
\* only in the control logic or in the physical-environment module.
C5_ReadOnlyTagsNotBridged ==
    [][ \A n \in DoorTagNames :
          (~plc_state[n].writable /\ plc_state'[n] # plc_state[n]) =>
              /\ pc' # pc
              /\ \/ Phase = "control"
                 \/ Phase = "input_scan" /\ Modules[pc.idx] = "phys" ]_vars

\* C8: with only_send_changed true, two write_outputs calls less than
\* publish_interval apart with a tag's value unchanged publish that tag at
\* most once; a call made before the next-allowed-time publishes nothing.
C8_RateLimit ==
    /\ (lastCall.n >= 1 /\ lastCall.t < lastCall.next) => lastCall.sent = {}
    /\ (mqtt_cfg.only_send_changed /\ prevCall.n >= 1
            /\ lastCall.t - prevCall.t < PublishInterval) =>
          \A n \in DOMAIN lastCall.values :
              lastCall.values[n] = prevCall.values[n] =>
                  ~(n \in prevCall.sent /\ n \in lastCall.sent)

\* two calls less than publish_interval apart, the first of which published a
\* tag whose value is the same at the second
C8_Witness ==
    /\ mqtt_cfg.only_send_changed /\ prevCall.n >= 1
    /\ lastCall.t - prevCall.t < PublishInterval
    /\ lastCall.t < lastCall.next
    /\ \E n \in prevCall.sent : lastCall.values[n] = prevCall.values[n]

\* C9: with the gate open a mapped tag is published iff only_send_changed is
\* false or its value differs from the last value sent for it; the first
\* open-gate call publishes every mapped tag; after a publish the mapping's
\* last-sent value is the published value.
C9_PublishIffChanged ==
    (lastCall.n >= 1 /\ lastCall.open) =>
        /\ \A n \in DOMAIN topic_mappings :
              n \in lastCall.sent <=>
                  (~mqtt_cfg.only_send_changed \/ lastCall.values[n] # lastCall.before[n])
        /\ (\A n \in DOMAIN topic_mappings : lastCall.before[n] = NoneV) =>
              lastCall.sent = DOMAIN topic_mappings
        /\ \A n \in lastCall.sent : topic_mappings[n].last_value = lastCall.values[n]

\* an open-gate call that published a changed tag and held back an unchanged one
C9_Witness ==
    /\ lastCall.n >= 2 /\ lastCall.open /\ mqtt_cfg.only_send_changed
    /\ lastCall.sent # {}
    /\ lastCall.sent # DOMAIN topic_mappings

\* C10: the pending map holds one payload per tag; a later message for the
\* same writable tag overwrites the pending payload, and the next read_inputs
\* leaves the tag holding the decoded value of the last message received.
C10_LastWriteWins ==
    [][ /\ \A n \in DOMAIN lastMsg' :
              /\ n \in DOMAIN pending_inputs'
              /\ pending_inputs'[n] = lastMsg'[n].payload
        /\ MqttApplyStep =>
              \A n \in DOMAIN lastMsg :
                  TagGet(plc_state'[n]) = DecodedFor(n, lastMsg[n].payload).value ]_vars

\* read_inputs has just drained a tag for which two messages had arrived, and
\* the tag holds the value of the second
C10_Witness ==
    /\ stepLog = <<[phase |-> "input_scan", module |-> "mqtt"]>>
    /\ \E n \in DOMAIN drained :
          /\ drained[n].count >= 2
          /\ TagGet(plc_state[n]) = DecodedFor(n, drained[n].payload).value

\* C11: read_inputs drains the pending map atomically with respect to
\* _on_message: under every interleaving, the payloads removed when
\* read_inputs releases the lock are exactly those its loop applied, the map
\* is then empty, and no other step removes an entry: a staged payload stays
\* in the map, possibly overwritten by a later one, until a drain applies it.
C11_DrainAtomic ==
    [][ /\ MqttApplyStep =>
              \A n \in DOMAIN pending_inputs :
                  TagGet(plc_state'[n]) = DecodedFor(n, pending_inputs[n]).value
        /\ MqttReadStep =>
              /\ pending_inputs' = EmptyMap
              /\ pending_inputs_lock' = "free"
              /\ \A n \in DOMAIN pending_inputs :
                    n \in DOMAIN drained /\ drained[n].payload = pending_inputs[n]
        /\ ~MqttReadStep =>
              \A n \in DOMAIN pending_inputs : n \in DOMAIN pending_inputs' ]_vars

\* the callback waits for the lock with a payload to stage while read_inputs
\* holds it over a non-empty pending map
C11_Witness ==
    /\ pending_inputs_lock = "plc"
    /\ callback # NoMsg
    /\ pending_inputs # EmptyMap

\* C17: PLC.start attempts start_module exactly once on every module, in list
\* order, also when an earlier module's start_module fails.
C17_StartIsBestEffort == pc.at # "start" => startLog = Modules

\* C23: a malformed payload delivered for a writable mapping is dropped: a
\* delivered message that stages nothing leaves every tag and the pending map
\* as they were, and the client goes on handling the messages that follow.
C23_MalformedDropped ==
    [][ (nmsgs' # nmsgs /\ callback' = NoMsg) =>
            /\ plc_state' = plc_state
            /\ pending_inputs' = pending_inputs
            /\ client' = client ]_vars

\* C25: a control-logic run sets the motor tag to 0 when both sensors are
\* true, otherwise to 2 when the target is open and the door not opened, to 1
\* when the target is closed and the door not closed, and to 0 in every other
\* case; the motor state that DoorPhysicalEnvModule.write_outputs then meets
\* is 0, 1 or 2, never an unknown one.
C25_MotorStateKnown ==
    [][ /\ (Phase = "control" /\ pc' # pc) =>
              LET opened == Truthy(TagGet(plc_state["Door_1_Opened"]))
                  closed == Truthy(TagGet(plc_state["Door_1_Closed"]))
                  target == Truthy(TagGet(plc_state["Door_1_Target"]))
              IN TagGet(plc_state'["Door_1_Motor"]) =
                    IntV(CASE opened /\ closed -> 0
                           [] ~(opened /\ closed) /\ target /\ ~opened -> 2
                           [] ~(opened /\ closed) /\ ~target /\ ~closed -> 1
                           [] OTHER -> 0)
        /\ (Phase = "output_update" /\ Modules[pc.idx] = "phys" /\ pc' # pc) =>
              /\ TagGet(plc_state["Door_1_Motor"]).v \in {0, 1, 2}
              /\ error' # "ValueError" ]_vars

\* C29: the publish gate is open on the first write_outputs call; a call
\* that finds the gate open sets the next-allowed-time to now +
\* publish_interval, whether or not a payload was produced; a call that finds
\* it closed changes neither the next-allowed-time nor a last-sent value.
C29_PublishGate ==
    /\ lastCall.n = 1 => lastCall.open
    /\ (lastCall.n >= 1 /\ lastCall.open) =>
          next_publish_time = lastCall.t + PublishInterval
    /\ (lastCall.n >= 1 /\ ~lastCall.open) =>
          /\ next_publish_time = lastCall.next
          /\ \A n \in DOMAIN topic_mappings :
                topic_mappings[n].last_value = lastCall.before[n]

\* after a first call, a later call found the gate open, produced no payload
\* and moved the next-allowed-time
C29_Witness ==
    /\ lastCall.n >= 2 /\ lastCall.open /\ lastCall.sent = {}
    /\ DOMAIN topic_mappings # {}
    /\ next_publish_time = lastCall.t + PublishInterval
    /\ next_publish_time # lastCall.next

-----------------------------------------------------------------------------
(* Oxygen PLC (oxygen_plc.py) with its OPC UA bridge (common/OPCUA_module.py) *)
(* and its physical-environment module, as main.py builds it.                *)
(* A float is counted in hundredths; the integral term i, which grows by     *)
(* err * dt with dt = 0.5, in two-hundredths.                                *)

FloatV(x) == [ty |-> "float", v |-> x]

\* the number a value stands for, in hundredths
Num100(x) == IF x.ty = "float" THEN x.v ELSE 100 * x.v

\* Oxy_PLC_State._create_tags, in declaration order
OxyTagOrder == <<"O2_PV", "Output", "High_Alarm", "Low_Alarm", "O2_SP", "ManualOverride",
                 "Output_Manual", "Kp", "Ki", "Kd", "i", "prev_err">>

OxyTagNames == {OxyTagOrder[k] : k \in 1..Len(OxyTagOrder)}

Oxy_PLC_State ==
    [n \in OxyTagNames |->
        CASE n = "O2_PV" -> Tag("float", IntV(0), FALSE)
          [] n = "Output" -> Tag("int", IntV(0), TRUE)
          [] n = "High_Alarm" -> Tag("bool", BoolV(FALSE), TRUE)
          [] n = "Low_Alarm" -> Tag("bool", BoolV(FALSE), TRUE)
          [] n = "O2_SP" -> Tag("float", FloatV(2100), TRUE)
          [] n = "ManualOverride" -> Tag("bool", BoolV(FALSE), TRUE)
          [] n = "Output_Manual" -> Tag("int", IntV(10), TRUE)
          [] n = "Kp" -> Tag("float", FloatV(280), TRUE)
          [] n = "Ki" -> Tag("float", FloatV(23), TRUE)
          [] n = "Kd" -> Tag("float", FloatV(200), TRUE)
          [] n = "i" -> Tag("float", FloatV(0), TRUE)
          [] n = "prev_err" -> Tag("float", FloatV(0), TRUE)]

\* SimulationConfig(simdt=0.5): the dt of every step, in units of 0.5 s
SimDt == 1

\* an integral that accumulates in every call
PidNeverFrozen(u, err, lo, hi) == FALSE

\* PLC._pid_controller, the negation of its anti-windup test: the raw output
\* u is saturated and err pushes it further
PidFrozen(u, err, lo, hi) == (u >= hi /\ err > 0) \/ (u <= lo /\ err < 0)

\* an output that is returned as computed
PidOutputRaw(u, lo, hi) == u

\* PLC._pid_controller: u = clamp(u, umin, umax)
PidOutput(u, lo, hi) == Clamp(u, lo, hi)

\* PLC._pid_controller: [u, err, i], u in 1/20000 after the clamp, err a
\* value in hundredths, i a value in two-hundredths; dt is 1 or 2 units of
\* 0.5 s, so that err * dt and (err - prev_err) / dt are exact
PidController(setpoint, actual, Kp, Ki, Kd, prev_err, i, dt, umin, umax) ==
    LET err == Num100(setpoint) - Num100(actual)
        d_err == (2 * (err - prev_err.v)) \div dt
        u == 2 * Kp.v * err + Ki.v * i.v + 2 * Kd.v * d_err
        hi == umax * 20000
        lo == umin * 20000
    IN [u |-> PidOutput(u, lo, hi),
        err |-> IF setpoint.ty = "float" \/ actual.ty = "float"
                THEN FloatV(err) ELSE IntV(err \div 100),
        i |-> IF PidFrozen(u, err, lo, hi) THEN i ELSE FloatV(i.v + err * dt)]

\* a manual mode that hands the operator's value on as it is
ManualOutputAsGiven(st) == TagGet(st["Output_Manual"]).v

\* Oxygen_PLC._control_logic, MANUAL mode: clamp(ext_Output_Manual.get(), 0, 100)
ManualOutput(st) == Clamp(TagGet(st["Output_Manual"]).v, 0, 100)

\* a control logic that runs the PID controller's bookkeeping in both modes
OxyControlLogicPidAlways(st) ==
    LET pv == TagGet(st["O2_PV"])
        r == PidController(TagGet(st["O2_SP"]), pv, TagGet(st["Kp"]), TagGet(st["Ki"]),
                           TagGet(st["Kd"]), TagGet(st["prev_err"]), TagGet(st["i"]), SimDt,
                           0, 100)
        auto == ~Truthy(TagGet(st["ManualOverride"]))
    IN [st EXCEPT !["High_Alarm"] = TagSet(@, BoolV(Num100(pv) > 2350)),
                  !["Low_Alarm"] = TagSet(@, BoolV(Num100(pv) < 1950)),
                  !["Output"] = TagSet(@, IntV(IF auto THEN r.u \div 20000
                                               ELSE ManualOutput(st))),
                  !["i"] = TagSet(@, r.i),
                  !["prev_err"] = TagSet(@, r.err)]

\* Oxygen_PLC._control_logic(dt = 0.5)
OxyControlLogic(st) ==
    LET pv == TagGet(st["O2_PV"])
        r == PidController(TagGet(st["O2_SP"]), pv, TagGet(st["Kp"]), TagGet(st["Ki"]),
                           TagGet(st["Kd"]), TagGet(st["prev_err"]), TagGet(st["i"]), SimDt,
                           0, 100)
        auto == ~Truthy(TagGet(st["ManualOverride"]))
        alarms == [st EXCEPT !["High_Alarm"] = TagSet(@, BoolV(Num100(pv) > 2350)),
                             !["Low_Alarm"] = TagSet(@, BoolV(Num100(pv) < 1950))]
    IN IF auto
       THEN [alarms EXCEPT !["Output"] = TagSet(@, IntV(r.u \div 20000)),
                           !["i"] = TagSet(@, r.i),
                           !["prev_err"] = TagSet(@, r.err)]
       ELSE [alarms EXCEPT !["Output"] = TagSet(@, IntV(ManualOutput(st)))]

\* OxygenOPCUAModule._create_node_structure: the tags given a variable, and
\* those asked to be writable
OxyOpcuaTags == {"O2_PV", "O2_SP", "ManualOverride", "Output", "Output_Manual",
                 "High_Alarm", "Low_Alarm", "Kp", "Ki", "Kd"}

OxyOpcuaAskedWritable == {"O2_SP", "ManualOverride", "Output_Manual", "Kp", "Ki", "Kd"}

\* the writable=True requests of the modules followed: those of
\* OxygenOPCUAModule, and those of a module that also asks for the sensor tag
OpcuaRequests == {OxyOpcuaAskedWritable, OxyOpcuaAskedWritable \cup {"O2_PV"}}

\* a variable bound writable whenever it was asked to be
BoundWritableAsAsked(asked, tag) == asked

\* OPCUA_IO_Module.add_variable_from_tag: is the variable bound writable
BoundWritable(asked, tag) == asked /\ tag.writable

\* OPCUA_IO_Module.read_inputs: OPCUAVarFromTag.read_input on every variable
OpcuaReadInputs(st, nodes, asked) ==
    [n \in DOMAIN st |->
        IF n \in DOMAIN nodes /\ BoundWritable(n \in asked, st[n])
        THEN TagSet(st[n], nodes[n]) ELSE st[n]]

\* a write_outputs that leaves the nodes of writable tags to the clients
OpcuaWriteOutputsReadOnly(st, nodes) ==
    [n \in DOMAIN nodes |-> IF st[n].writable THEN nodes[n] ELSE TagGet(st[n])]

\* OPCUA_IO_Module.write_outputs: OPCUAVarFromTag.write_output on every variable
OpcuaWriteOutputs(st, nodes) == [n \in DOMAIN nodes |-> TagGet(st[n])]

\* OxygenPhysicalEnvModule.read_inputs: o2_concentration plus Gaussian noise
\* is a float; the readings the model draws it from, in hundredths
O2Readings == {1500, 2100, 2500}

\* values an OPC UA client writes to a writable node; the server keeps the
\* variant type of the node
ClientWrites ==
    { [n |-> "O2_PV", value |-> FloatV(9900)],
      [n |-> "ManualOverride", value |-> BoolV(TRUE)],
      [n |-> "Output_Manual", value |-> IntV(150)],
      [n |-> "O2_SP", value |-> FloatV(3000)] }

\* Simulation.run up to the first step: the entities are constructed and
\* started; start_module creates a node for every variable
OxyStarted ==
    /\ oxy_state = Oxy_PLC_State
    /\ oxy_pc = PhaseBegin(1)
    /\ oxy_cycle = 0
    /\ oxy_nodes = [n \in OxyOpcuaTags |-> TagGet(Oxy_PLC_State[n])]
    /\ oxy_asked \in OpcuaRequests
    /\ o2_supply_valve = 0
    /\ oxy_writes = 0

OxyPhase == IF oxy_pc.at = "plc" THEN StepOrder[oxy_pc.k] ELSE "none"

\* Oxygen_PLC(modules=[OxygenOPCUAModule(port=4842), OxygenPhysicalEnvModule(env)])
OxyModules == <<"opcua", "phys">>

OxyAfterModule ==
    IF oxy_pc.idx < Len(OxyModules) THEN [oxy_pc EXCEPT !.idx = oxy_pc.idx + 1]
    ELSE PhaseBegin(oxy_pc.k + 1)

\* PLC._input_scan: OPCUA_IO_Module.read_inputs
OxyOpcuaRead ==
    /\ OxyPhase = "input_scan" /\ OxyModules[oxy_pc.idx] = "opcua"
    /\ oxy_state' = OpcuaReadInputs(oxy_state, oxy_nodes, oxy_asked)
    /\ oxy_pc' = OxyAfterModule
    /\ UNCHANGED <<oxy_cycle, oxy_nodes, oxy_asked, o2_supply_valve, oxy_writes>>

\* PLC._input_scan: OxygenPhysicalEnvModule.read_inputs
OxyPhysRead ==
    /\ OxyPhase = "input_scan" /\ OxyModules[oxy_pc.idx] = "phys"
    /\ \E r \in O2Readings :
         oxy_state' = [oxy_state EXCEPT !["O2_PV"] = TagSet(@, FloatV(r))]
    /\ oxy_pc' = OxyAfterModule
    /\ UNCHANGED <<oxy_cycle, oxy_nodes, oxy_asked, o2_supply_valve, oxy_writes>>

\* PLC.step: self._control_logic(dt)
OxyControl ==
    /\ OxyPhase = "control"
    /\ oxy_state' = OxyControlLogic(oxy_state)
    /\ oxy_pc' = PhaseBegin(oxy_pc.k + 1)
    /\ UNCHANGED <<oxy_cycle, oxy_nodes, oxy_asked, o2_supply_valve, oxy_writes>>

\* PLC._output_update: OPCUA_IO_Module.write_outputs
OxyOpcuaWrite ==
    /\ OxyPhase = "output_update" /\ OxyModules[oxy_pc.idx] = "opcua"
    /\ oxy_nodes' = OpcuaWriteOutputs(oxy_state, oxy_nodes)
    /\ oxy_pc' = OxyAfterModule
    /\ UNCHANGED <<oxy_asked, oxy_state, oxy_cycle, o2_supply_valve, oxy_writes>>

\* PLC._output_update: OxygenPhysicalEnvModule.write_outputs
OxyPhysWrite ==
    /\ OxyPhase = "output_update" /\ OxyModules[oxy_pc.idx] = "phys"
    /\ o2_supply_valve' = TagGet(oxy_state["Output"]).v
    /\ oxy_pc' = OxyAfterModule
    /\ UNCHANGED <<oxy_state, oxy_cycle, oxy_nodes, oxy_asked, oxy_writes>>

\* Simulation.run: time.sleep, then the next step of the PLC
OxySleep ==
    /\ oxy_pc.at = "sleep"
    /\ oxy_cycle < MaxCycles + 1
    /\ oxy_cycle' = oxy_cycle + 1
    /\ oxy_pc' = PhaseBegin(1)
    /\ UNCHANGED <<oxy_state, oxy_nodes, oxy_asked, o2_supply_valve, oxy_writes>>

\* an OPC UA client writes a node that was made writable
OxyClientWrite ==
    /\ oxy_writes < MaxMsgs
    /\ \E w \in ClientWrites :
         /\ BoundWritable(w.n \in oxy_asked, oxy_state[w.n])
         /\ oxy_nodes' = [oxy_nodes EXCEPT ![w.n] = w.value]
    /\ oxy_writes' = oxy_writes + 1
    /\ UNCHANGED <<oxy_asked, oxy_state, oxy_pc, oxy_cycle, o2_supply_valve>>

\* the Door PLC's variables in the behaviours of the Oxygen PLC
MainIdle ==
    /\ InitMain
    /\ mqtt_cfg.only_send_changed
    /\ mqtt_cfg.maps["Door_1_Opened"] = "none"
    /\ mqtt_cfg.maps["Door_1_Motor"] = "ro"

NextOxy ==
    \/ OxyOpcuaRead /\ UNCHANGED restOfOxy
    \/ OxyPhysRead /\ UNCHANGED restOfOxy
    \/ OxyControl /\ UNCHANGED restOfOxy
    \/ OxyOpcuaWrite /\ UNCHANGED restOfOxy
    \/ OxyPhysWrite /\ UNCHANGED restOfOxy
    \/ OxySleep /\ UNCHANGED restOfOxy
    \/ OxyClientWrite /\ UNCHANGED restOfOxy

\* the Oxygen PLC is constructed and started; nothing else is
InitOxy == MainIdle /\ OxyStarted /\ MapIdle /\ PidIdle /\ StateIdle /\ BridgesIdle /\ FloatIdle /\ LoopIdle /\ RegIdle /\ EchoIdle /\ SimIdle /\ DoorIdle /\ MultiIdle

\* the Oxygen PLC with its OPC UA bridge and its physical-environment module
SpecOxy == InitOxy /\ [][NextOxy]_vars

\* the scan thread is about to call OPCUA_IO_Module.read_inputs
AtOpcuaRead == OxyPhase = "input_scan" /\ OxyModules[oxy_pc.idx] = "opcua"

\* C19: OPC-UA read_inputs leaves the tag of every variable that is not bound
\* writable unchanged and sets the tag of every variable bound writable to
\* the node's current value; a variable is bound writable only when it was
\* asked to be and its tag is writable; read_inputs can always run, whether
\* or not a client has written.
C19_OpcuaReadFrame ==
    /\ [][ (AtOpcuaRead /\ oxy_pc' # oxy_pc) =>
              \A n \in OxyTagNames :
                  IF n \in OxyOpcuaTags /\ n \in oxy_asked /\ oxy_state[n].writable
                  THEN TagGet(oxy_state'[n]) = oxy_nodes[n]
                  ELSE oxy_state'[n] = oxy_state[n] ]_vars
    /\ [](AtOpcuaRead => ENABLED OxyOpcuaRead)

\* the sensor tag was asked writable, a client has written O2_SP, and
\* read_inputs has pulled that value into the tag
C19_Witness ==
    /\ "O2_PV" \in oxy_asked
    /\ oxy_writes > 0
    /\ ~AtOpcuaRead
    /\ oxy_nodes["O2_SP"] = FloatV(3000)
    /\ TagGet(oxy_state["O2_SP"]) = FloatV(3000)

\* the tags have the values of the claim's example: O2_SP = 21.0, O2_PV = 15.0,
\* automatic mode, the gains of _create_tags
OxyExample(st) ==
    /\ Num100(TagGet(st["O2_SP"])) = 2100
    /\ Num100(TagGet(st["O2_PV"])) = 1500
    /\ ~Truthy(TagGet(st["ManualOverride"]))
    /\ \A g \in {"Kp", "Ki", "Kd"} : TagGet(st[g]) = TagGet(Oxy_PLC_State[g])

\* C24: after every _control_logic call, in automatic or manual mode, Output
\* is an integer in [0,100], and so is the valve value handed to the physical
\* environment; a call made with O2_SP = 21.0, O2_PV = 15.0, automatic mode
\* and the default gains leaves Output strictly greater than 0.
C24_OutputInRange ==
    [][ /\ TagGet(oxy_state'["Output"]).ty = "int"
        /\ TagGet(oxy_state'["Output"]).v \in 0..100
        /\ o2_supply_valve' \in 0..100
        /\ (OxyPhase = "control" /\ oxy_pc' # oxy_pc /\ OxyExample(oxy_state)) =>
              TagGet(oxy_state'["Output"]).v > 0 ]_vars

\* the valve has been given the output of a manual-mode call made with an
\* Output_Manual above 100, after an automatic call on the example's values
C24_Witness ==
    /\ Truthy(TagGet(oxy_state["ManualOverride"]))
    /\ TagGet(oxy_state["Output_Manual"]).v > 100
    /\ TagGet(oxy_state["Output"]).v = 100
    /\ o2_supply_valve = 100
    /\ TagGet(oxy_state["prev_err"]) = FloatV(600)

\* C38: in manual mode _control_logic sets Output to Output_Manual clamped
\* to [0,100] and leaves the tags i and prev_err as they are; in automatic
\* mode it stores the integral and the error the PID call returns in i and
\* prev_err.
C38_ManualKeepsPidState ==
    [][ (OxyPhase = "control" /\ oxy_pc' # oxy_pc) =>
          LET st == oxy_state
              m == TagGet(st["Output_Manual"]).v
              r == PidController(TagGet(st["O2_SP"]), TagGet(st["O2_PV"]),
                                 TagGet(st["Kp"]), TagGet(st["Ki"]), TagGet(st["Kd"]),
                                 TagGet(st["prev_err"]), TagGet(st["i"]), SimDt, 0, 100)
          IN IF Truthy(TagGet(st["ManualOverride"]))
             THEN /\ TagGet(oxy_state'["Output"]).v
                        = (IF m < 0 THEN 0 ELSE IF m > 100 THEN 100 ELSE m)
                  /\ oxy_state'["i"] = st["i"]
                  /\ oxy_state'["prev_err"] = st["prev_err"]
             ELSE /\ TagGet(oxy_state'["i"]) = r.i
                  /\ TagGet(oxy_state'["prev_err"]) = r.err ]_vars

\* a manual-mode call has just left i and prev_err at the values of an
\* earlier automatic call although the error has changed since
C38_Witness ==
    /\ OxyPhase = "output_update"
    /\ Truthy(TagGet(oxy_state["ManualOverride"]))
    /\ TagGet(oxy_state["Output"]).v = 10
    /\ TagGet(oxy_state["prev_err"]) # FloatV(0)
    /\ TagGet(oxy_state["i"]) # FloatV(0)
    /\ Num100(TagGet(oxy_state["O2_SP"])) - Num100(TagGet(oxy_state["O2_PV"]))
          # TagGet(oxy_state["prev_err"]).v

\* C34: OPC-UA write_outputs sets every bound node, writable or not, to its
\* tag's value and changes no tag: a value a client has written to a node
\* since the input scan is overwritten and is in no node and no tag afterwards.
C34_OutputOverwritesClientWrite ==
    [][ (OxyPhase = "output_update" /\ OxyModules[oxy_pc.idx] = "opcua"
            /\ oxy_pc' # oxy_pc) =>
          /\ oxy_state' = oxy_state
          /\ \A n \in DOMAIN oxy_nodes : oxy_nodes'[n] = TagGet(oxy_state[n]) ]_vars

\* in the first cycle a client has written a node after the input scan;
\* write_outputs has run, and the client's value is in no node and no tag
C34_Witness ==
    /\ oxy_cycle = 0
    /\ oxy_writes = 1
    /\ OxyPhase = "output_update" /\ OxyModules[oxy_pc.idx] = "phys"
    /\ \A w \in ClientWrites :
          /\ oxy_nodes[w.n] # w.value
          /\ TagGet(oxy_state[w.n]) # w.value

\* C6: in every reachable state each tag's value has the runtime type named
\* by its datatype, and no tag's datatype changes after creation.
C6_ValueTypeMatchesDatatype ==
    \A n \in DOMAIN oxy_state :
        /\ oxy_state[n].value.ty = oxy_state[n].datatype
        /\ oxy_state[n].datatype = Oxy_PLC_State[n].datatype

-----------------------------------------------------------------------------
(* Modbus address map (common/modbus_module.py)                              *)

MaxTags == 2
MaxBuilds == 2
MaxMbOps == 4
\* registers of a block that are followed (block_size is 100)
BlockSize == 8

\* ModbusSegment
SegmentNames == {"coils", "discrete_inputs", "holding_registers", "input_registers"}

\* ModbusMap: the four dicts are attributes of the class, shared by every
\* instance; this is their value when the class is defined
ModbusMap == [s \in SegmentNames |-> EmptyMap]

\* ModbusMap.add_coil, add_discrete_input, add_holding_register,
\* add_input_register: segment[tag_name] = len(segment)
AddTo(segs, s, tag_name) ==
    [segs EXCEPT ![s] = DictSet(@, tag_name, Cardinality(DOMAIN @))]

\* tag.name + "_hi"
Hi(tag_name) == tag_name \o "_hi"

\* Modbus_IO_Module._create_mapping: the body of the loop for one tag
MapTag(segs, tag) ==
    CASE tag.datatype = "bool" ->
            AddTo(segs, IF tag.writable THEN "coils" ELSE "discrete_inputs", tag.name)
      [] tag.datatype = "int" ->
            AddTo(segs, IF tag.writable THEN "holding_registers" ELSE "input_registers",
                  tag.name)
      [] tag.datatype = "float" ->
            LET s == IF tag.writable THEN "holding_registers" ELSE "input_registers"
            IN AddTo(AddTo(segs, s, tag.name), s, Hi(tag.name))
      [] OTHER -> segs

\* Modbus_IO_Module._create_mapping: the loop over plc_state.tags()
RECURSIVE CreateMapping(_, _)
CreateMapping(segs, tags) ==
    IF tags = <<>> THEN segs
    ELSE CreateMapping(MapTag(segs, Head(tags)), Tail(tags))

\* tag names, datatypes and flags the PLC states are drawn from
MapTagNames == {"A", "A_hi", "B"}

MapTagSet == [name : MapTagNames, datatype : {"bool", "int", "float", "str"},
              writable : BOOLEAN]

\* a check that accepts every list of tags
UniqueTagNamesUnchecked(tags) == TRUE

\* PLC_State._check_unique_tag_names: the constructor raises on a duplicate
UniqueTagNames(tags) ==
    \A i \in DOMAIN tags : \A j \in DOMAIN tags : tags[i].name = tags[j].name => i = j

\* ModbusMap.segments, in the order find goes through them
SegmentOrder == <<"coils", "discrete_inputs", "holding_registers", "input_registers">>

\* ModbusMap.find: the first segment that holds the name; KeyError otherwise
Find(segs, tag_name) ==
    LET hits == {k \in DOMAIN SegmentOrder : tag_name \in DOMAIN segs[SegmentOrder[k]]}
    IN IF hits = {}
       THEN [raised |-> TRUE, addr |-> 0, block_name |-> "none"]
       ELSE LET k == CHOOSE h \in hits : \A g \in hits : h <= g
            IN [raised |-> FALSE, addr |-> segs[SegmentOrder[k]][tag_name],
                block_name |-> SegmentOrder[k]]

\* Modbus_IO_Module._get_block_by_name
GetBlockByName(block_name) ==
    CASE block_name = "coils" -> "co"
      [] block_name = "discrete_inputs" -> "di"
      [] block_name = "holding_registers" -> "hr"
      [] block_name = "input_registers" -> "ir"

\* Modbus_IO_Module._make_device: four blocks, every register 0
MakeDevice == [b \in {"co", "di", "hr", "ir"} |-> [a \in 0..(BlockSize - 1) |-> 0]]

\* _set_regs: block.setValues(addr+1, vals)
SetRegs(block, addr, vals) ==
    LET at == {addr + k : k \in DOMAIN vals}
    IN [a \in DOMAIN block \cup at |-> IF a \in at THEN vals[a - addr] ELSE block[a]]

\* _get_bits, _get_regs: block.getValues(addr+1, count)
GetRegs(block, addr, count) == [k \in 1..count |-> block[addr + k]]

\* ModbusClientMixin.convert_to_registers (pymodbus) raises instead of giving
\* registers: struct.pack(">h", v) accepts -32768..32767 only (struct.error)
ConvertRaises(value, datatype) ==
    datatype = "int" /\ (value.v < -32768 \/ value.v > 32767)

\* ModbusClientMixin.convert_to_registers (pymodbus): BITS gives one register
\* that is 0 exactly for False, INT16 the 16-bit two's complement (of a value
\* that ConvertRaises lets through), FLOAT32 two registers, high word first.
\* A float is held in hundredths; its 32-bit two's complement stands for the
\* IEEE-754 pattern.
ConvertToRegisters(value, datatype) ==
    CASE datatype = "bool" -> <<IF Truthy(value) THEN 1 ELSE 0>>
      [] datatype = "int" -> <<value.v % 65536>>
      [] datatype = "float" -> <<(value.v \div 65536) % 65536, value.v % 65536>>

\* a 16-bit register read as a signed number
Signed16(r) == IF r >= 32768 THEN r - 65536 ELSE r

\* a decoding that takes an int register as unsigned
ConvertFromRegistersUnsigned(regs, datatype) ==
    CASE datatype = "bool" -> BoolV(regs[1] # 0)
      [] datatype = "int" -> IntV(regs[1])
      [] datatype = "float" -> FloatV(Signed16(regs[1]) * 65536 + regs[2])

\* bool(bit) and ModbusClientMixin.convert_from_registers
ConvertFromRegisters(regs, datatype) ==
    CASE datatype = "bool" -> BoolV(regs[1] # 0)
      [] datatype = "int" -> IntV(Signed16(regs[1]))
      [] datatype = "float" -> FloatV(Signed16(regs[1]) * 65536 + regs[2])

\* number of registers of a datatype (DATATYPE.value[1])
RegCount(datatype) == IF datatype = "float" THEN 2 ELSE 1

\* a read_inputs that takes every tag from its registers
ReadsEveryTag(tag) == TRUE

\* read_inputs: "if not tag.writable: continue"
ReadsTag(tag) == tag.writable

\* Modbus_IO_Module.read_inputs: the value each tag has after the loop
\* (a tag of a datatype other than bool, int, float is looked up and left)
ReadInputs(segs, tags, values, blocks) ==
    [i \in DOMAIN tags |->
        LET f == Find(segs, tags[i].name)
        IN IF ReadsTag(tags[i]) /\ tags[i].datatype \in {"bool", "int", "float"}
           THEN ConvertFromRegisters(
                    GetRegs(blocks[GetBlockByName(f.block_name)], f.addr,
                            RegCount(tags[i].datatype)),
                    tags[i].datatype)
           ELSE values[i]]

\* Modbus_IO_Module.write_outputs: the loop from tag i on; it ends at the
\* first tag that find does not know
RECURSIVE WriteOutputs(_, _, _, _, _)
WriteOutputs(segs, tags, values, blocks, i) ==
    IF i > Len(tags) THEN [blocks |-> blocks, raised |-> FALSE]
    ELSE LET f == Find(segs, tags[i].name)
         IN IF f.raised THEN [blocks |-> blocks, raised |-> TRUE]
            ELSE IF tags[i].datatype \in {"bool", "int", "float"}
            THEN LET b == GetBlockByName(f.block_name)
                 IN WriteOutputs(segs, tags, values,
                        [blocks EXCEPT ![b] =
                            SetRegs(@, f.addr, ConvertToRegisters(values[i],
                                                                  tags[i].datatype))],
                        i + 1)
            ELSE WriteOutputs(segs, tags, values, blocks, i + 1)

\* the value Tag(name, datatype, ...) is created with
MbInitial(datatype) ==
    CASE datatype = "bool" -> BoolV(FALSE)
      [] datatype = "int" -> IntV(0)
      [] datatype = "float" -> FloatV(0)
      [] OTHER -> [ty |-> datatype, v |-> 0]

\* values another module or the control logic sets a tag to
MbSetValue(datatype) ==
    CASE datatype = "bool" -> BoolV(TRUE)
      [] datatype = "int" -> IntV(-3)
      [] datatype = "float" -> FloatV(150)
      [] OTHER -> [ty |-> datatype, v |-> 1]

\* a PLC state is constructed; no module is started
MapConstructed ==
    /\ mb_tags \in UNION {[1..k -> MapTagSet] : k \in 0..MaxTags}
    /\ UniqueTagNames(mb_tags)
    /\ mb_segments = ModbusMap
    /\ mb_builds = 0
    /\ mb_value = [i \in DOMAIN mb_tags |-> MbInitial(mb_tags[i].datatype)]
    /\ mb_blocks = EmptyMap
    /\ mb_error = FALSE
    /\ mb_ops = 0
    /\ mb_lastOp = "none"
    /\ mb_seen = {}

\* Modbus_IO_Module.start_module of one more module on the PLC state:
\* self._make_device(), self.mapping = self._create_mapping(plc_state), and
\* at the end self.write_outputs(plc_state)
ModbusStart ==
    /\ mb_builds < MaxBuilds
    /\ ~mb_error
    /\ LET segs == CreateMapping(mb_segments, mb_tags)
           w == WriteOutputs(segs, mb_tags, mb_value, MakeDevice, 1)
       IN /\ mb_segments' = segs
          /\ mb_blocks' = w.blocks
          /\ mb_error' = w.raised
    /\ mb_builds' = mb_builds + 1
    /\ mb_lastOp' = "start_module"
    /\ UNCHANGED <<mb_tags, mb_value, mb_ops, mb_seen>>

\* the module is started and a call on it is followed
ModbusRunning == mb_builds >= 1 /\ ~mb_error /\ mb_ops < MaxMbOps

\* PLC._input_scan: module.read_inputs(self.state)
ModbusReadInputs ==
    /\ ModbusRunning
    /\ mb_value' = ReadInputs(mb_segments, mb_tags, mb_value, mb_blocks)
    /\ mb_seen' = mb_seen
          \cup {"skip" : i \in {j \in DOMAIN mb_tags :
                   /\ ~mb_tags[j].writable
                   /\ mb_tags[j].datatype \in {"bool", "int", "float"}
                   /\ LET f == Find(mb_segments, mb_tags[j].name)
                      IN ConvertFromRegisters(
                             GetRegs(mb_blocks[GetBlockByName(f.block_name)], f.addr,
                                     RegCount(mb_tags[j].datatype)),
                             mb_tags[j].datatype) # mb_value[j]}}
          \cup {"pull" : i \in {j \in DOMAIN mb_tags :
                   mb_tags[j].writable /\ mb_value'[j] # mb_value[j]}}
    /\ mb_ops' = mb_ops + 1
    /\ mb_lastOp' = "read_inputs"
    /\ UNCHANGED <<mb_tags, mb_segments, mb_builds, mb_blocks, mb_error>>

\* PLC._output_update: module.write_outputs(self.state)
ModbusWriteOutputs ==
    /\ ModbusRunning
    /\ mb_blocks' = WriteOutputs(mb_segments, mb_tags, mb_value, mb_blocks, 1).blocks
    /\ mb_ops' = mb_ops + 1
    /\ mb_lastOp' = "write_outputs"
    /\ UNCHANGED <<mb_tags, mb_segments, mb_builds, mb_value, mb_error, mb_seen>>

\* another module's read_inputs or the control logic: tag.set(value)
ModbusTagSet ==
    /\ ModbusRunning
    /\ \E i \in DOMAIN mb_tags :
         /\ mb_value[i] # MbSetValue(mb_tags[i].datatype)
         /\ mb_value' = [mb_value EXCEPT ![i] = MbSetValue(mb_tags[i].datatype)]
    /\ mb_ops' = mb_ops + 1
    /\ mb_lastOp' = "tag_set"
    /\ UNCHANGED <<mb_tags, mb_segments, mb_builds, mb_blocks, mb_error, mb_seen>>

\* a Modbus client writes the coil or the holding register at the address
\* of a name of the map (function codes 5 and 6; the server stores the
\* value at address + 1 of the block)
ModbusClientWrite ==
    /\ ModbusRunning
    /\ \E s \in {"coils", "holding_registers"} : \E n \in DOMAIN mb_segments[s] :
         LET b == GetBlockByName(s)
             val == IF s = "coils" THEN 1 ELSE 5
         IN /\ mb_blocks[b][mb_segments[s][n] + 1] # val
            /\ mb_blocks' = [mb_blocks EXCEPT ![b] = SetRegs(@, mb_segments[s][n], <<val>>)]
    /\ mb_ops' = mb_ops + 1
    /\ mb_lastOp' = "client_write"
    /\ UNCHANGED <<mb_tags, mb_segments, mb_builds, mb_value, mb_error, mb_seen>>

NextMap ==
    \/ ModbusStart /\ UNCHANGED restOfMap
    \/ ModbusReadInputs /\ UNCHANGED restOfMap
    \/ ModbusWriteOutputs /\ UNCHANGED restOfMap
    \/ ModbusTagSet /\ UNCHANGED restOfMap
    \/ ModbusClientWrite /\ UNCHANGED restOfMap

\* a PLC state for a Modbus module is constructed; nothing else is
InitMap == MainIdle /\ OxyIdle /\ MapConstructed /\ PidIdle /\ StateIdle /\ BridgesIdle /\ FloatIdle /\ LoopIdle /\ RegIdle /\ EchoIdle /\ SimIdle /\ DoorIdle /\ MultiIdle

\* Modbus modules started on a PLC state
SpecMap == InitMap /\ [][NextMap]_vars

\* the segment _create_mapping puts a tag in
SegmentOf(tag) ==
    CASE tag.datatype = "bool" -> IF tag.writable THEN "coils" ELSE "discrete_inputs"
      [] tag.datatype \in {"int", "float"} ->
            IF tag.writable THEN "holding_registers" ELSE "input_registers"
      [] OTHER -> "none"

\* C7: in the address map built from a PLC state, the addresses of each
\* segment are pairwise distinct and are exactly 0..k-1, without gap or
\* duplicate, in the order the tags are enumerated, for every combination of
\* tag names, datatypes and writable flags.
C7_SegmentAddressesContiguous ==
    mb_builds >= 1 =>
        /\ \A s \in SegmentNames :
             LET d == mb_segments[s]
             IN /\ \A a \in DOMAIN d : \A b \in DOMAIN d : d[a] = d[b] => a = b
                /\ {d[n] : n \in DOMAIN d} = 0..(Cardinality(DOMAIN d) - 1)
        /\ \A i \in DOMAIN mb_tags : \A j \in DOMAIN mb_tags :
             (i < j /\ SegmentOf(mb_tags[i]) = SegmentOf(mb_tags[j])
                    /\ SegmentOf(mb_tags[i]) # "none")
             => mb_segments[SegmentOf(mb_tags[i])][mb_tags[i].name]
                  < mb_segments[SegmentOf(mb_tags[j])][mb_tags[j].name]

\* C30: the map places each bool, int or float tag in the segment given by
\* its datatype and writable flag (coils, discrete inputs, holding registers,
\* input registers); a float tag has two consecutive addresses of that
\* segment, its own and the next one under its "_hi" name.
C30_SegmentByTypeAndFlag ==
    mb_builds >= 1 =>
        \A i \in DOMAIN mb_tags :
            LET tag == mb_tags[i]
                seg == mb_segments[SegmentOf(tag)]
            IN tag.datatype \in {"bool", "int", "float"} =>
                  /\ tag.name \in DOMAIN seg
                  /\ tag.datatype = "float" =>
                        /\ Hi(tag.name) \in DOMAIN seg
                        /\ seg[Hi(tag.name)] = seg[tag.name] + 1

\* C36: the address map a start_module builds depends only on the tags of
\* the PLC state passed to it: a start after a stop, or the start of a second
\* module in the same process, gives the addresses a first start gives.
C36_MapDependsOnlyOnTags ==
    mb_builds >= 1 => mb_segments = CreateMapping(ModbusMap, mb_tags)

\* the tag is of a datatype read_inputs and write_outputs have a branch for
MbEncoded(i) == mb_tags[i].datatype \in {"bool", "int", "float"}

\* the block that find gives for tag i, and the registers of the tag in it
MbBlockOf(i) == GetBlockByName(Find(mb_segments, mb_tags[i].name).block_name)

MbRegsOf(i) ==
    {Find(mb_segments, mb_tags[i].name).addr + k : k \in 1..RegCount(mb_tags[i].datatype)}

\* the registers of tag i in the given blocks
MbRegisters(blocks, i) ==
    GetRegs(blocks[MbBlockOf(i)], Find(mb_segments, mb_tags[i].name).addr,
            RegCount(mb_tags[i].datatype))

-----------------------------------------------------------------------------
(* PLC._pid_controller (common/PLC.py) called repeatedly by a caller that    *)
(* persists prev_err and the integral between the calls                      *)

MaxCalls == 3

\* arguments the caller keeps fixed: setpoint and gains in hundredths, dt in
\* units of 0.5 s, umin and umax with umin <= umax
PidArgs ==
    [setpoint : {FloatV(2100)}, Kp : {FloatV(280)}, Ki : {FloatV(0), FloatV(23)},
     Kd : {FloatV(0), FloatV(200)}, dt : {1, 2},
     lim : {[umin |-> 0, umax |-> 100], [umin |-> 0 - 5, umax |-> 5],
            [umin |-> 0, umax |-> 0]}]

\* process values the calls are made with, in hundredths
PidActuals == {FloatV(0), FloatV(2000), FloatV(2100), FloatV(4000)}

\* the caller before its first call: prev_err and the integral are 0.0
PidStart ==
    /\ pid_args \in PidArgs
    /\ pid_prev_err = FloatV(0)
    /\ pid_i = FloatV(0)
    /\ pid_calls = 0
    /\ pid_prevCall = EmptyMap
    /\ pid_lastCall = EmptyMap

\* (u, err, i) = _pid_controller(...); the caller stores err and i
PidCall ==
    /\ pid_calls < MaxCalls
    /\ \E actual \in PidActuals :
         LET r == PidController(pid_args.setpoint, actual, pid_args.Kp, pid_args.Ki,
                                pid_args.Kd, pid_prev_err, pid_i, pid_args.dt,
                                pid_args.lim.umin, pid_args.lim.umax)
         IN /\ pid_prev_err' = r.err
            /\ pid_i' = r.i
            /\ pid_lastCall' = [actual |-> actual, prev_err |-> pid_prev_err,
                                i |-> pid_i, ret |-> r]
    /\ pid_prevCall' = pid_lastCall
    /\ pid_calls' = pid_calls + 1
    /\ UNCHANGED pid_args

NextPid ==
    \/ PidCall /\ UNCHANGED restOfPid

InitPid == MainIdle /\ OxyIdle /\ MapIdle /\ PidStart /\ StateIdle /\ BridgesIdle /\ FloatIdle /\ LoopIdle /\ RegIdle /\ EchoIdle /\ SimIdle /\ DoorIdle /\ MultiIdle

\* repeated calls of _pid_controller
SpecPid == InitPid /\ [][NextPid]_vars

\* setpoint - actual of a recorded call, in hundredths
CallErr(c) == pid_args.setpoint.v - c.actual.v

\* Kp*err + Ki*i + Kd*(err - prev_err)/dt of a recorded call, computed from
\* the integral the call was given, in 1/20000
CallRawU(c) ==
    2 * pid_args.Kp.v * CallErr(c) + pid_args.Ki.v * c.i.v
      + 2 * pid_args.Kd.v * ((2 * (CallErr(c) - c.prev_err.v)) \div pid_args.dt)

\* the raw output of a recorded call is at or beyond a limit and err pushes
\* further beyond it
CallSaturated(c) ==
    \/ CallRawU(c) >= pid_args.lim.umax * 20000 /\ CallErr(c) > 0
    \/ CallRawU(c) <= pid_args.lim.umin * 20000 /\ CallErr(c) < 0

\* C12: _pid_controller returns err = setpoint - actual; it returns the
\* integral unchanged when the unclamped output computed from the incoming
\* integral is >= umax with err > 0 or <= umin with err < 0, and integral +
\* err*dt in every other case; so the integral does not grow while the output
\* is pinned at umax with err positive.
C12_AntiWindup ==
    pid_calls > 0 =>
        LET c == pid_lastCall
        IN /\ c.ret.err.v = CallErr(c)
           /\ CallSaturated(c) => c.ret.i = c.i
           /\ ~CallSaturated(c) => c.ret.i.v = c.i.v + CallErr(c) * pid_args.dt
           /\ (CallRawU(c) >= pid_args.lim.umax * 20000 /\ CallErr(c) > 0)
                 => pid_i.v <= c.i.v

\* a call with the output pinned at umax and err positive left the integral
\* as it was, and the next call, no longer saturated, changed it
C12_Witness ==
    /\ pid_calls >= 2
    /\ CallRawU(pid_prevCall) >= pid_args.lim.umax * 20000
    /\ CallErr(pid_prevCall) > 0
    /\ pid_prevCall.ret.i = pid_prevCall.i
    /\ ~CallSaturated(pid_lastCall)
    /\ pid_lastCall.ret.i # pid_lastCall.i

\* C13: with umin <= umax and dt > 0 the output _pid_controller returns lies
\* in [umin, umax].
C13_OutputWithinLimits ==
    pid_calls > 0 =>
        /\ pid_args.lim.umin * 20000 <= pid_lastCall.ret.u
        /\ pid_lastCall.ret.u <= pid_args.lim.umax * 20000

\* a call whose raw output was above umax returned umax
C13_Witness ==
    /\ pid_calls > 0
    /\ CallRawU(pid_lastCall) > pid_args.lim.umax * 20000
    /\ pid_lastCall.ret.u = pid_args.lim.umax * 20000

-----------------------------------------------------------------------------
(* Tag and PLC_State (common/PLC.py): construction of a state by             *)
(* PLC.__init__, Tag.set and PLC_State.tags()                                *)

MaxSets == 2

\* tags a subclass may create in _create_tags; two of them may share a name
StTagSet == [name : {"A", "B"}, datatype : {"bool", "int", "float"}, writable : {TRUE}]

\* an initial value of the tag's datatype
DefaultValue(datatype) ==
    CASE datatype = "bool" -> BoolV(FALSE)
      [] datatype = "int" -> IntV(0)
      [] OTHER -> FloatV(0)

\* values Tag.set is called with
SetValues == {IntV(5), FloatV(150)}

\* _create_tags: self.<attribute> = Tag(name, datatype, initial_value, writable)
\* for every declaration; __dict__ keeps the insertion order
CreateTags(decl) ==
    [k \in DOMAIN decl |->
        [name |-> decl[k].name, datatype |-> decl[k].datatype,
         writable |-> decl[k].writable, value |-> DefaultValue(decl[k].datatype)]]

\* tags() in the reverse of the insertion order
TagsReversed(dict) == [k \in DOMAIN dict |-> dict[Len(dict) + 1 - k]]

\* PLC_State.tags(): the Tag values of __dict__, in its order
Tags(dict) == [k \in DOMAIN dict |-> dict[k]]

\* a PLC subclass and its state class are defined; no PLC is constructed
StateDeclared ==
    /\ st_decl \in UNION {[1..k -> StTagSet] : k \in 0..MaxTags}
    /\ st_dict = <<>>
    /\ st_status = "declared"
    /\ st_sets = 0
    /\ st_lastSet = EmptyMap

\* PLC.__init__: self.plc_state = self._create_initial_state(), which runs
\* PLC_State.__init__: _create_tags, then _check_unique_tag_names
StateConstruct ==
    /\ st_status = "declared"
    /\ IF UniqueTagNames(Tags(CreateTags(st_decl)))
       THEN st_status' = "created" /\ st_dict' = CreateTags(st_decl)
       ELSE st_status' = "ValueError" /\ st_dict' = <<>>
    /\ UNCHANGED <<st_decl, st_sets, st_lastSet>>

\* Tag.set(value) on a tag of the state, as the control logic and the bridges
\* call it
StateSetTag ==
    /\ st_status = "created"
    /\ st_sets < MaxSets
    /\ \E k \in DOMAIN Tags(st_dict), value \in SetValues :
         /\ st_dict' = [st_dict EXCEPT ![k] = TagSet(@, value)]
         /\ st_lastSet' = [k |-> k, value |-> value, before |-> st_dict[k].value]
    /\ st_sets' = st_sets + 1
    /\ UNCHANGED <<st_decl, st_status>>

NextState ==
    \/ StateConstruct /\ UNCHANGED restOfState
    \/ StateSetTag /\ UNCHANGED restOfState

InitState == MainIdle /\ OxyIdle /\ MapIdle /\ PidIdle /\ StateDeclared /\ BridgesIdle /\ FloatIdle /\ LoopIdle /\ RegIdle /\ EchoIdle /\ SimIdle /\ DoorIdle /\ MultiIdle

\* a PLC state class, constructed and written to
SpecState == InitState /\ [][NextState]_vars

\* C14: Tag.set called with a value whose type is not the tag's datatype
\* fails with a type-mismatch error and leaves the tag's value unchanged.
C14_SetRejectsWrongType ==
    (st_sets > 0 /\ st_lastSet.value.ty # st_dict[st_lastSet.k].datatype) =>
        /\ st_status = "TypeMismatchError"
        /\ st_dict[st_lastSet.k].value = st_lastSet.before

\* C15: constructing a PLC state in which two tags share a name fails with an
\* error and no controller is created over it; construction with pairwise
\* distinct names succeeds.
C15_DuplicateNamesRejected ==
    st_status # "declared" =>
        IF Cardinality({st_decl[k].name : k \in DOMAIN st_decl}) = Len(st_decl)
        THEN st_status = "created" /\ Len(st_dict) = Len(st_decl)
        ELSE st_status = "ValueError" /\ st_dict = <<>>

\* the construction of a state with two tags of the same name has failed
C15_Witness ==
    /\ st_status = "ValueError"
    /\ \E j, k \in DOMAIN st_decl : j # k /\ st_decl[j].name = st_decl[k].name

\* C16: at every point of the controller's lifetime tags() returns exactly
\* the tags created at construction, in declaration order: none is added,
\* removed or reordered.
C16_TagsFixedInDeclarationOrder ==
    st_status = "created" =>
        /\ Len(Tags(st_dict)) = Len(st_decl)
        /\ \A k \in DOMAIN st_decl :
              /\ Tags(st_dict)[k].name = st_decl[k].name
              /\ Tags(st_dict)[k].datatype = st_decl[k].datatype
              /\ Tags(st_dict)[k].writable = st_decl[k].writable

\* a state of two tags has been written to as often as the bound allows
C16_Witness ==
    /\ st_status = "created"
    /\ Len(st_decl) >= 2
    /\ st_sets = MaxSets

-----------------------------------------------------------------------------
(* start_module and stop_module of the three bridges, called in any order    *)
(* on one module of each kind.  Calls into paho-mqtt, asyncua and pymodbus   *)
(* are taken to return normally; the exceptions modelled are those the       *)
(* module's own code raises.                                                 *)

MaxOps == 4

\* the modules as their constructors leave them: Modbus_IO_Module.__init__
\* sets _loop and _thread to None, MQTT_IO_Module.__init__ creates no client
\* attribute, OPCUA_IO_Module.__init__ creates the Server
BridgesConstructed ==
    /\ br_modbus = "stopped"
    /\ br_mqtt = "no client"
    /\ br_opcua = "created"
    /\ br_ops = 0
    /\ br_lastStop = EmptyMap

\* the record of a stop_module call
StopCall(bridge, before, raised) ==
    [bridge |-> bridge, before |-> before, raised |-> raised]

\* Modbus_IO_Module.start_module: returns early when the thread is alive,
\* otherwise starts the server thread
BridgeStartModbus ==
    /\ br_ops < MaxOps
    /\ br_modbus' = "running"
    /\ br_ops' = br_ops + 1
    /\ UNCHANGED <<br_mqtt, br_opcua, br_lastStop>>

\* Modbus_IO_Module.stop_module: returns at once when _loop or _thread is
\* None, otherwise stops the loop, joins the thread and sets both to None
BridgeStopModbus ==
    /\ br_ops < MaxOps
    /\ br_modbus' = "stopped"
    /\ br_lastStop' = StopCall("modbus", br_modbus, FALSE)
    /\ br_ops' = br_ops + 1
    /\ UNCHANGED <<br_mqtt, br_opcua>>

\* MQTT_IO_Module.start_module: self.client = mqtt.Client(...), connect,
\* loop_start
BridgeStartMqtt ==
    /\ br_ops < MaxOps
    /\ br_mqtt' = "connected"
    /\ br_ops' = br_ops + 1
    /\ UNCHANGED <<br_modbus, br_opcua, br_lastStop>>

\* MQTT_IO_Module.stop_module: self.client.disconnect(); self.client.loop_stop().
\* Without a client attribute the lookup self.client raises AttributeError
BridgeStopMqtt ==
    /\ br_ops < MaxOps
    /\ IF br_mqtt = "no client"
       THEN /\ br_mqtt' = br_mqtt
            /\ br_lastStop' = StopCall("mqtt", br_mqtt, TRUE)
       ELSE /\ br_mqtt' = "disconnected"
            /\ br_lastStop' = StopCall("mqtt", br_mqtt, FALSE)
    /\ br_ops' = br_ops + 1
    /\ UNCHANGED <<br_modbus, br_opcua>>

\* OPCUA_IO_Module.start_module: _create_node_structure, self.server.start()
BridgeStartOpcua ==
    /\ br_ops < MaxOps
    /\ br_opcua' = "started"
    /\ br_ops' = br_ops + 1
    /\ UNCHANGED <<br_modbus, br_mqtt, br_lastStop>>

\* OPCUA_IO_Module.stop_module: self.server.stop()
BridgeStopOpcua ==
    /\ br_ops < MaxOps
    /\ br_opcua' = "stopped"
    /\ br_lastStop' = StopCall("opcua", br_opcua, FALSE)
    /\ br_ops' = br_ops + 1
    /\ UNCHANGED <<br_modbus, br_mqtt>>

NextBridges ==
    \/ BridgeStartModbus /\ UNCHANGED restOfBridges
    \/ BridgeStopModbus /\ UNCHANGED restOfBridges
    \/ BridgeStartMqtt /\ UNCHANGED restOfBridges
    \/ BridgeStopMqtt /\ UNCHANGED restOfBridges
    \/ BridgeStartOpcua /\ UNCHANGED restOfBridges
    \/ BridgeStopOpcua /\ UNCHANGED restOfBridges

InitBridges == MainIdle /\ OxyIdle /\ MapIdle /\ PidIdle /\ StateIdle /\ BridgesConstructed /\ FloatIdle /\ LoopIdle /\ RegIdle /\ EchoIdle /\ SimIdle /\ DoorIdle /\ MultiIdle

\* the three bridges, started and stopped in any order
SpecBridges == InitBridges /\ [][NextBridges]_vars

\* C18: stop_module is idempotent for every bridge: called a second time in a
\* row, or on a bridge that was never started, it returns without error and
\* leaves the bridge stopped as one call after a start does.
C18_StopIdempotent ==
    br_lastStop # EmptyMap =>
        /\ ~br_lastStop.raised
        /\ br_modbus = "stopped" \/ br_lastStop.bridge # "modbus"
        /\ br_mqtt = "disconnected" \/ br_lastStop.bridge # "mqtt"
        /\ br_opcua = "stopped" \/ br_lastStop.bridge # "opcua"

-----------------------------------------------------------------------------
(* A float tag written to and read back from two Modbus registers            *)
(* (Modbus_IO_Module.write_outputs and read_inputs, DATATYPE.FLOAT32).  The  *)
(* tag's value is a decimal n / FloatScale; what is read back is the float32 *)
(* m * 2^e that struct packs it to.                                          *)

MaxFloat == 16

\* the tag values are multiples of 0.00001
FloatScale == 100000

\* the values of the tag: 0.0, -1.0, 3.14159, 100.0, -273.15 and others
FloatInputs ==
    {0, -100000, 314159, 10000000, -27315000}
        \cup {k * 12345 : k \in (-MaxFloat)..MaxFloat}

Abs(x) == IF x < 0 THEN -x ELSE x

\* the binary exponent E of n / d: 2^E <= n / d < 2^(E+1), for n > 0
FloatExponent(n, d) ==
    IF n >= d THEN CHOOSE k \in 0..14 : d * 2^k <= n /\ n < d * 2^(k + 1)
    ELSE -(CHOOSE k \in 1..17 : d <= n * 2^k /\ n * 2^(k - 1) < d)

\* the next k bits of the binary expansion of a fraction r / den < 1, appended
\* to m, and the remainder that is left
RECURSIVE Expand(_, _, _, _)
Expand(r, den, m, k) ==
    IF k = 0 THEN [m |-> m, r |-> r]
    ELSE IF 2 * r >= den THEN Expand(2 * r - den, den, 2 * m + 1, k - 1)
         ELSE Expand(2 * r, den, 2 * m, k - 1)

\* the first 24 significant bits of n / d (n > 0) and the remainder: n / d =
\* (m + r / den) * 2^(E - 23) with 2^23 <= m < 2^24
Significand(n, d) ==
    LET E == FloatExponent(n, d)
        num == IF E >= 0 THEN n ELSE n * 2^(-E)
        den == IF E >= 0 THEN d * 2^E ELSE d
        x == Expand(num - den, den, 1, 23)
    IN [E |-> E, m |-> x.m, r |-> x.r, den |-> den]

\* struct.pack(">f", n / d): the sign, exponent and fraction fields of the
\* float32 nearest to n / d (ties to even)
StructPackFloat(n, d) ==
    IF n = 0 THEN [sign |-> 0, exp |-> 0, frac |-> 0]
    ELSE LET t == Significand(Abs(n), d)
             up == 2 * t.r > t.den \/ (2 * t.r = t.den /\ t.m % 2 = 1)
             m == IF up THEN t.m + 1 ELSE t.m
             carry == m = 2^24
         IN [sign |-> IF n < 0 THEN 1 ELSE 0,
             exp |-> (IF carry THEN t.E + 1 ELSE t.E) + 127,
             frac |-> IF carry THEN 0 ELSE m - 2^23]

\* convert_to_registers(value, DATATYPE.FLOAT32): the four bytes as two
\* registers, the high word first
Float32ToRegisters(n, d) ==
    LET p == StructPackFloat(n, d)
    IN <<p.sign * 32768 + p.exp * 128 + p.frac \div 65536, p.frac % 65536>>

\* a decoding that takes the low word first
RegistersToFloat32LowFirst(regs) ==
    [sign |-> regs[2] \div 32768, exp |-> (regs[2] % 32768) \div 128,
     frac |-> (regs[2] % 128) * 65536 + regs[1]]

\* convert_from_registers(regs, DATATYPE.FLOAT32): the fields of the four bytes
RegistersToFloat32(regs) ==
    [sign |-> regs[1] \div 32768, exp |-> (regs[1] % 32768) \div 128,
     frac |-> (regs[1] % 128) * 65536 + regs[2]]

\* struct.unpack(">f", ...): the float a normal pattern or zero stands for,
\* as sign and m * 2^e
StructUnpackFloat(p) ==
    IF p.exp = 0 /\ p.frac = 0 THEN [sign |-> p.sign, m |-> 0, e |-> 0]
    ELSE [sign |-> p.sign, m |-> 2^23 + p.frac, e |-> p.exp - 127 - 23]

\* the writable float tag of the PLC state and where find puts it
FloatTag == [name |-> "A", datatype |-> "float", writable |-> TRUE]

FloatAddr == Find(CreateMapping(ModbusMap, <<FloatTag>>), FloatTag.name)

\* a PLC state with the tag is constructed and the module started
FloatStart ==
    /\ fl_tag \in FloatInputs
    /\ fl_hr = MakeDevice[GetBlockByName(FloatAddr.block_name)]
    /\ fl_pc = "set"
    /\ fl_got = EmptyMap

\* Modbus_IO_Module.write_outputs, the float branch
FloatWriteOutputs ==
    /\ fl_pc = "set"
    /\ fl_hr' = SetRegs(fl_hr, FloatAddr.addr, Float32ToRegisters(fl_tag, FloatScale))
    /\ fl_pc' = "written"
    /\ UNCHANGED <<fl_tag, fl_got>>

\* Modbus_IO_Module.read_inputs, the float branch
FloatReadInputs ==
    /\ fl_pc = "written"
    /\ fl_got' = StructUnpackFloat(RegistersToFloat32(
                     GetRegs(fl_hr, FloatAddr.addr, RegCount(FloatTag.datatype))))
    /\ fl_pc' = "read"
    /\ UNCHANGED <<fl_tag, fl_hr>>

NextFloat ==
    \/ FloatWriteOutputs /\ UNCHANGED restOfFloat
    \/ FloatReadInputs /\ UNCHANGED restOfFloat

InitFloat == MainIdle /\ OxyIdle /\ MapIdle /\ PidIdle /\ StateIdle /\ BridgesIdle /\ FloatStart /\ LoopIdle /\ RegIdle /\ EchoIdle /\ SimIdle /\ DoorIdle /\ MultiIdle

\* a float tag written to the registers and read back
SpecFloat == InitFloat /\ [][NextFloat]_vars

\* the float m * 2^e with the given sign is within half a unit in the last
\* place of n / d: it is the 24-bit truncation of n / d or the float after it,
\* whichever n / d is not farther from
WithinFloat32(n, d, got) ==
    IF n = 0 THEN got.m = 0
    ELSE LET t == Significand(Abs(n), d)
         IN /\ got.sign = (IF n < 0 THEN 1 ELSE 0)
            /\ \/ got.m = t.m /\ got.e = t.E - 23 /\ 2 * t.r <= t.den
               \/ got.m = t.m + 1 /\ got.e = t.E - 23 /\ 2 * t.r >= t.den
               \/ got.m = 2^23 /\ got.e = t.E - 22 /\ t.m = 2^24 - 1
                     /\ 2 * t.r >= t.den

\* C26: a float tag's value encoded into two registers by write_outputs and
\* decoded by read_inputs comes back within float32 precision of the
\* original, for 0.0, -1.0, 3.14159, 100.0, -273.15 and the other values.
C26_FloatRoundTrip == fl_pc = "read" => WithinFloat32(fl_tag, FloatScale, fl_got)

\* 3.14159 has gone through the registers 0x4049, 0x0FD0 and has come back
\* as 13176784 * 2^-22, which is not 3.14159
C26_Witness ==
    /\ fl_pc = "read"
    /\ fl_tag = 314159
    /\ GetRegs(fl_hr, FloatAddr.addr, 2) = <<16457, 4048>>
    /\ fl_got = [sign |-> 0, m |-> 13176784, e |-> -22]

-----------------------------------------------------------------------------
(* The threads of a Modbus_IO_Module: the scan thread that calls             *)
(* start_module, read_inputs, write_outputs and stop_module, and the server  *)
(* thread whose event loop runs the callbacks one at a time.  The PLC state  *)
(* has one writable int tag, mapped to one holding register; a scan cycle is *)
(* read_inputs, the control logic and write_outputs.                         *)

MaxLoopOps == 3
MaxRequests == 2
MaxStarts == 2

\* the value the tag is constructed with
LoopTagInitial == -1

\* the register values a client writes
ClientValues == {65534}

\* the encoding of the tag's value in its register
LoopEncoded(tag) == ConvertToRegisters(IntV(tag), "int")[1]

\* the module is constructed (Modbus_IO_Module.__init__)
LoopConstructed == LoopRest("new", LoopTagInitial)

\* fn called by the calling thread itself
RunOnLoopDirect(queue, runner) == [queue |-> queue, thread |-> "scan"]

\* _run_on_loop: self._loop.call_soon_threadsafe(runner)
RunOnLoop(queue, runner) == [queue |-> Append(queue, runner), thread |-> "loop"]

\* number of client requests among the callbacks
RequestsIn(queue) == Cardinality({i \in DOMAIN queue : queue[i].kind = "request"})

\* a block access made for read_inputs or write_outputs, by the given thread
Access(op, thread) ==
    [n |-> lp_access.n + 1, op |-> op, thread |-> thread,
     during |-> lp_running.kind, waiting |-> RequestsIn(lp_queue)]

\* _run_on_loop(fn) called by the scan thread: without a loop RuntimeError is
\* raised; otherwise the runner is handed to the loop and the caller waits
\* for done
LoopCall(op, wait, fail) ==
    LET runner == Callback("runner", op, lp_ops + 1, LoopEncoded(lp_tag))
        h == RunOnLoop(lp_queue, runner)
    IN /\ lp_ops' = lp_ops + 1
       /\ IF ~lp_loop
          THEN /\ lp_last' = [op |-> op, timedOut |-> FALSE,
                              raised |-> "RuntimeError", assigned |-> FALSE]
               /\ lp_pc' = fail
               /\ UNCHANGED <<lp_queue, lp_call, lp_reg, lp_tag, lp_access>>
          ELSE IF h.thread = "loop"
          THEN /\ lp_queue' = h.queue
               /\ lp_call' = [id |-> lp_ops + 1, op |-> op, done |-> FALSE, result |-> 0]
               /\ lp_pc' = wait
               /\ UNCHANGED <<lp_reg, lp_tag, lp_last, lp_access>>
          ELSE /\ lp_access' = Access(op, h.thread)
               /\ lp_reg' = IF op = "set" THEN runner.val ELSE lp_reg
               /\ lp_tag' = IF op = "get"
                            THEN ConvertFromRegisters(<<lp_reg>>, "int").v ELSE lp_tag
               /\ lp_last' = [op |-> op, timedOut |-> FALSE, raised |-> "none",
                              assigned |-> op = "get"]
               /\ lp_pc' = fail
               /\ UNCHANGED <<lp_queue, lp_call>>

\* start_module: _make_device; return when the thread is alive; otherwise
\* the mapping, the thread, and the wait for the started event
LoopStartModule ==
    /\ lp_pc \in {"new", "ready"}
    /\ lp_starts < MaxStarts
    /\ lp_starts' = lp_starts + 1
    /\ lp_reg' = MakeDevice["hr"][0]
    /\ IF lp_ref /\ lp_thread \in {"init", "run"}
       THEN /\ lp_shared' = FALSE
            /\ lp_start' = [result |-> "ok", written |-> FALSE, waited |-> "none",
                            posted |-> 0]
            /\ lp_pc' = "ready"
            /\ UNCHANGED <<lp_thread, lp_ref, lp_started>>
       ELSE /\ lp_shared' = TRUE
            /\ lp_started' = FALSE
            /\ lp_thread' = "init"
            /\ lp_ref' = TRUE
            /\ lp_start' = NoStart
            /\ lp_pc' = "start_wait"
    /\ UNCHANGED <<lp_loop, lp_queue, lp_running, lp_tag, lp_call, lp_ops, lp_reqs,
                   lp_last, lp_access, lp_stop>>

\* thread_main up to run_forever: the loop is made, the server task created
\* and self._started_evt.set handed to the loop
LoopThreadMain ==
    /\ lp_thread = "init"
    /\ lp_loop' = TRUE
    /\ lp_queue' = Append(lp_queue, Callback("started_set", "none", 0, 0))
    /\ lp_thread' = "run"
    /\ UNCHANGED <<lp_pc, lp_ref, lp_started, lp_running, lp_shared, lp_reg, lp_tag,
                   lp_call, lp_ops, lp_reqs, lp_starts, lp_last, lp_access, lp_start,
                   lp_stop>>

\* a client's write request reaches the server
LoopClientRequest ==
    /\ lp_thread = "run"
    /\ lp_reqs < MaxRequests
    /\ \E v \in ClientValues :
           lp_queue' = Append(lp_queue, Callback("request", "set", 0, v))
    /\ lp_reqs' = lp_reqs + 1
    /\ UNCHANGED <<lp_pc, lp_thread, lp_ref, lp_loop, lp_started, lp_running,
                   lp_shared, lp_reg, lp_tag, lp_call, lp_ops, lp_starts, lp_last,
                   lp_access, lp_start, lp_stop>>

\* run_forever takes the next callback
LoopTake ==
    /\ lp_thread = "run"
    /\ lp_running = NoCallback
    /\ lp_queue # <<>>
    /\ lp_running' = Head(lp_queue)
    /\ lp_queue' = Tail(lp_queue)
    /\ UNCHANGED <<lp_pc, lp_thread, lp_ref, lp_loop, lp_started, lp_shared, lp_reg,
                   lp_tag, lp_call, lp_ops, lp_reqs, lp_starts, lp_last, lp_access,
                   lp_start, lp_stop>>

\* the callback the loop is running does its work and ends: the started
\* event is set, a runner calls fn and sets done, a request is served,
\* stop_loop creates the _grace task, _grace stops the loop and the thread
\* cleans up and ends
LoopRunCallback ==
    LET cb == lp_running
        mine == cb.kind = "runner" /\ lp_call.id = cb.id
    IN /\ lp_thread = "run"
       /\ cb # NoCallback
       /\ lp_running' = NoCallback
       /\ lp_started' = IF cb.kind = "started_set" THEN TRUE ELSE lp_started
       /\ lp_reg' = CASE cb.kind = "runner" /\ cb.op = "set" -> cb.val
                      [] cb.kind = "request" /\ lp_shared -> cb.val
                      [] OTHER -> lp_reg
       /\ lp_call' = IF mine THEN [lp_call EXCEPT !.done = TRUE, !.result = lp_reg]
                     ELSE lp_call
       /\ lp_access' = IF cb.kind = "runner" THEN Access(cb.op, "loop") ELSE lp_access
       /\ lp_queue' = IF cb.kind = "stop_loop"
                      THEN Append(lp_queue, Callback("grace", "none", 0, 0))
                      ELSE lp_queue
       /\ lp_thread' = IF cb.kind = "grace" THEN "ended" ELSE lp_thread
       /\ UNCHANGED <<lp_pc, lp_ref, lp_loop, lp_shared, lp_tag, lp_ops, lp_reqs,
                      lp_starts, lp_last, lp_start, lp_stop>>

\* start_module after the wait: the started event is set and write_outputs
\* begins
LoopStartWrite ==
    /\ lp_pc = "start_wait"
    /\ lp_started
    /\ LoopCall("set", "start_write", "ready")
    /\ lp_start' = [lp_start EXCEPT !.waited = "set", !.posted = 1]
    /\ UNCHANGED <<lp_thread, lp_ref, lp_loop, lp_started, lp_running, lp_shared,
                   lp_reqs, lp_starts, lp_stop>>

\* start_module after the wait: the started event is not set after 5 s and
\* RuntimeError is raised
LoopStartTimeout ==
    /\ lp_pc = "start_wait"
    /\ ~lp_started
    /\ lp_start' = [result |-> "RuntimeError", written |-> FALSE,
                    waited |-> "timeout", posted |-> 0]
    /\ lp_pc' = "ready"
    /\ UNCHANGED <<lp_thread, lp_ref, lp_loop, lp_started, lp_queue, lp_running,
                   lp_shared, lp_reg, lp_tag, lp_call, lp_ops, lp_reqs, lp_starts,
                   lp_last, lp_access, lp_stop>>

\* the PLC's control logic between read_inputs and write_outputs gives the
\* tag another value
LoopControlLogic ==
    /\ lp_pc = "control"
    /\ lp_tag' = IF lp_tag >= 2 THEN -1 ELSE lp_tag + 1
    /\ lp_pc' = "write"
    /\ UNCHANGED <<lp_thread, lp_ref, lp_loop, lp_started, lp_queue,
                   lp_running, lp_shared, lp_reg, lp_call, lp_ops, lp_reqs,
                   lp_starts, lp_last, lp_access, lp_start, lp_stop>>

\* read_inputs up to the wait in _get_regs
LoopReadInputs ==
    /\ lp_pc = "ready"
    /\ lp_ops < MaxLoopOps
    /\ LoopCall("get", "read_wait", "control")
    /\ UNCHANGED <<lp_thread, lp_ref, lp_loop, lp_started, lp_running, lp_shared,
                   lp_reqs, lp_starts, lp_start, lp_stop>>

\* write_outputs up to the wait in _set_regs
LoopWriteOutputs ==
    /\ lp_pc = "write"
    /\ LoopCall("set", "write_wait", "ready")
    /\ UNCHANGED <<lp_thread, lp_ref, lp_loop, lp_started, lp_running, lp_shared,
                   lp_reqs, lp_starts, lp_start, lp_stop>>

\* _run_on_loop after done.wait(timeout=5.0), whether or not done is set:
\* err[0] is None and result[0] is returned, None when the runner has not
\* run.  read_inputs converts the registers and sets the tag, and fails with
\* TypeError on None; write_outputs and start_module go on.
LoopCallEnds ==
    /\ lp_pc \in {"start_write", "read_wait", "write_wait"}
    /\ lp_last' = [op |-> lp_call.op, timedOut |-> ~lp_call.done,
                   raised |-> IF lp_call.op = "get" /\ ~lp_call.done
                              THEN "TypeError" ELSE "none",
                   assigned |-> lp_call.op = "get" /\ lp_call.done]
    /\ lp_tag' = IF lp_call.op = "get" /\ lp_call.done
                 THEN ConvertFromRegisters(<<lp_call.result>>, "int").v ELSE lp_tag
    /\ lp_start' = IF lp_pc = "start_write"
                   THEN [lp_start EXCEPT !.result = "ok", !.written = lp_call.done]
                   ELSE lp_start
    /\ lp_call' = NoLoopCall
    /\ lp_pc' = IF lp_pc = "read_wait" THEN "control" ELSE "ready"
    /\ UNCHANGED <<lp_thread, lp_ref, lp_loop, lp_started, lp_queue, lp_running,
                   lp_shared, lp_reg, lp_ops, lp_reqs, lp_starts, lp_access, lp_stop>>

\* stop_module up to the join: return without a loop or a thread, otherwise
\* stop_loop is handed to the loop
LoopStopModule ==
    /\ lp_pc = "ready"
    /\ IF ~lp_loop \/ ~lp_ref
       THEN /\ lp_pc' = "stopped"
            /\ lp_stop' = [result |-> "returned", alive |-> lp_thread \in {"init", "run"}]
            /\ UNCHANGED lp_queue
       ELSE /\ lp_pc' = "stop_wait"
            /\ lp_queue' = Append(lp_queue, Callback("stop_loop", "none", 0, 0))
            /\ UNCHANGED lp_stop
    /\ UNCHANGED <<lp_thread, lp_ref, lp_loop, lp_started, lp_running, lp_shared,
                   lp_reg, lp_tag, lp_call, lp_ops, lp_reqs, lp_starts, lp_last,
                   lp_access, lp_start>>

\* stop_module after self._thread.join(timeout=5.0), whether or not the
\* thread has ended: the references are dropped and the method returns
LoopStopEnds ==
    /\ lp_pc = "stop_wait"
    /\ lp_loop' = FALSE
    /\ lp_ref' = FALSE
    /\ lp_started' = FALSE
    /\ lp_stop' = [result |-> "returned", alive |-> lp_thread \in {"init", "run"}]
    /\ lp_pc' = "stopped"
    /\ UNCHANGED <<lp_thread, lp_queue, lp_running, lp_shared, lp_reg, lp_tag,
                   lp_call, lp_ops, lp_reqs, lp_starts, lp_last, lp_access, lp_start>>

NextLoop ==
    \/ LoopStartModule /\ UNCHANGED restOfLoop
    \/ LoopThreadMain /\ UNCHANGED restOfLoop
    \/ LoopClientRequest /\ UNCHANGED restOfLoop
    \/ LoopTake /\ UNCHANGED restOfLoop
    \/ LoopRunCallback /\ UNCHANGED restOfLoop
    \/ LoopStartWrite /\ UNCHANGED restOfLoop
    \/ LoopStartTimeout /\ UNCHANGED restOfLoop
    \/ LoopControlLogic /\ UNCHANGED restOfLoop
    \/ LoopReadInputs /\ UNCHANGED restOfLoop
    \/ LoopWriteOutputs /\ UNCHANGED restOfLoop
    \/ LoopCallEnds /\ UNCHANGED restOfLoop
    \/ LoopStopModule /\ UNCHANGED restOfLoop
    \/ LoopStopEnds /\ UNCHANGED restOfLoop

InitLoop == MainIdle /\ OxyIdle /\ MapIdle /\ PidIdle /\ StateIdle /\ BridgesIdle /\ FloatIdle /\ LoopConstructed /\ RegIdle /\ EchoIdle /\ SimIdle /\ DoorIdle /\ MultiIdle

\* the scan thread and the server thread of a Modbus module
SpecLoop == InitLoop /\ [][NextLoop]_vars

\* C21: a register access handed to the loop that is not completed within
\* 5 s ends with a timeout error raised to the caller: nothing is returned
\* as if the access had succeeded and no tag is assigned.
C21_TimeoutRaises ==
    lp_last.timedOut => lp_last.raised = "TimeoutError" /\ ~lp_last.assigned

\* C22: when the server thread has not ended after the wait of stop_module,
\* stop_module reports a shutdown timeout instead of returning normally.
C22_StopReportsTimeout ==
    lp_pc = "stopped" /\ lp_stop.alive => lp_stop.result = "TimeoutError"

\* C27: every block access of read_inputs and write_outputs is made by the
\* event loop's thread, as the one callback the loop is running, never by
\* the scan thread and never while the loop is serving a client request.
C27_AccessOnLoopThread ==
    lp_access.n > 0 => lp_access.thread = "loop" /\ lp_access.during = "runner"

\* read_inputs has read the register on the loop's thread while a client
\* request was waiting for the loop, after a request was served
C27_Witness ==
    /\ lp_access.op = "get"
    /\ lp_access.thread = "loop"
    /\ lp_access.waiting >= 1
    /\ lp_reqs = MaxRequests
    /\ lp_last.assigned
    /\ lp_tag = Signed16(65534)

\* C35: start_module on a module whose server thread is alive changes
\* nothing: the thread is the same and the blocks read_inputs and
\* write_outputs use are, with their content, still the blocks the running
\* server serves.
C35_StartWhileAliveNoOp ==
    [][ (lp_starts' # lp_starts /\ lp_ref /\ lp_thread \in {"init", "run"}) =>
            /\ lp_thread' = lp_thread
            /\ lp_shared' = lp_shared
            /\ lp_reg' = lp_reg ]_vars

\* C28: when start_module returns normally its write_outputs has put the
\* tag's encoding into the register; when the server thread does not signal
\* its start in time, start_module fails with an error and has handed no
\* write to the loop.
C28_StartWritesOnce ==
    /\ lp_start.result = "ok" => lp_start.written
    /\ lp_start.waited = "timeout" =>
           lp_start.result = "RuntimeError" /\ lp_start.posted = 0

-----------------------------------------------------------------------------
(* A writable bool or int tag written to and read back from its coil or      *)
(* register (Modbus_IO_Module.write_outputs and read_inputs, the BITS and    *)
(* INT16 branches)                                                           *)

MaxReg == 20

\* the values of an int tag: int32 values in and outside -32768..32767
RegIntInputs ==
    {-2147483647 - 1, -40000, -32769, -32768, -3, 0, 5, 32767, 32768, 40000, 65541,
     2147483647} \cup {k * 1000 : k \in (-MaxReg)..MaxReg}

\* the writable tag of the PLC state and where find puts it
RegTag(datatype) == [name |-> "A", datatype |-> datatype, writable |-> TRUE]

RegAddr(datatype) == Find(CreateMapping(ModbusMap, <<RegTag(datatype)>>), "A")

RegBlock(datatype) == GetBlockByName(RegAddr(datatype).block_name)

\* the coil or register of the tag
RegOf(blocks, datatype) ==
    GetRegs(blocks[RegBlock(datatype)], RegAddr(datatype).addr, RegCount(datatype))

\* a PLC state with the tag is constructed and the module started
RegStart ==
    /\ rg_tag \in {"bool", "int"}
    /\ rg_value \in IF rg_tag = "bool" THEN {BoolV(TRUE), BoolV(FALSE)}
                    ELSE {IntV(n) : n \in RegIntInputs}
    /\ rg_blocks = MakeDevice
    /\ rg_pc = "set"
    /\ rg_before = NoneV
    /\ rg_client = FALSE

\* Modbus_IO_Module.write_outputs, the bool and the int branch: the
\* conversion raises or its registers are set
RegWriteOutputs ==
    /\ rg_pc = "set"
    /\ rg_before' = rg_value
    /\ IF ConvertRaises(rg_value, rg_tag)
       THEN /\ rg_pc' = "raised"
            /\ UNCHANGED rg_blocks
       ELSE /\ rg_pc' = "written"
            /\ rg_blocks' = [rg_blocks EXCEPT ![RegBlock(rg_tag)] =
                                SetRegs(@, RegAddr(rg_tag).addr,
                                        ConvertToRegisters(rg_value, rg_tag))]
    /\ UNCHANGED <<rg_tag, rg_value, rg_client>>

\* a Modbus client writes the tag's coil or holding register
RegClientWrite ==
    /\ rg_pc \in {"written", "raised"}
    /\ ~rg_client
    /\ rg_blocks' = [rg_blocks EXCEPT ![RegBlock(rg_tag)] =
                        SetRegs(@, RegAddr(rg_tag).addr,
                                <<IF rg_tag = "bool" THEN 1 ELSE 5>>)]
    /\ rg_client' = TRUE
    /\ UNCHANGED <<rg_tag, rg_value, rg_pc, rg_before>>

\* Modbus_IO_Module.read_inputs of the next scan, the bool and the int branch
RegReadInputs ==
    /\ rg_pc \in {"written", "raised"}
    /\ rg_value' = ConvertFromRegisters(RegOf(rg_blocks, rg_tag), rg_tag)
    /\ rg_pc' = "read"
    /\ UNCHANGED <<rg_tag, rg_blocks, rg_before, rg_client>>

NextReg ==
    \/ RegWriteOutputs /\ UNCHANGED restOfReg
    \/ RegClientWrite /\ UNCHANGED restOfReg
    \/ RegReadInputs /\ UNCHANGED restOfReg

InitReg == MainIdle /\ OxyIdle /\ MapIdle /\ PidIdle /\ StateIdle /\ BridgesIdle /\ FloatIdle /\ LoopIdle /\ RegStart /\ EchoIdle /\ SimIdle /\ DoorIdle /\ MultiIdle

\* a bool or int tag written to its coil or register and read back
SpecReg == InitReg /\ [][NextReg]_vars

\* C31: an int tag is carried in one 16-bit register: write_outputs stores
\* the low 16 bits of the tag's value for every int32 value, also outside
\* -32768..32767, and read_inputs decodes the register as a signed 16-bit
\* integer.
C31_IntTruncatedTo16Bits ==
    rg_tag = "int" =>
        /\ rg_pc # "raised"
        /\ (rg_pc = "written" /\ ~rg_client) =>
               RegOf(rg_blocks, "int") = <<rg_before.v % 65536>>
        /\ (rg_pc = "read" /\ ~rg_client) =>
               rg_value = IntV(Signed16(rg_before.v % 65536))

\* C37: write_outputs followed by read_inputs with no client write in
\* between leaves a writable bool tag, and a writable int tag whose value is
\* in -32768..32767, with the value it had before write_outputs.
C37_WriteThenReadKeepsValue ==
    (/\ rg_pc = "read"
     /\ ~rg_client
     /\ rg_tag = "int" => (rg_before.v >= -32768 /\ rg_before.v <= 32767))
    => rg_value = rg_before

\* -32768 has gone through the register as 32768 and has come back
C37_Witness ==
    /\ rg_pc = "read"
    /\ ~rg_client
    /\ rg_tag = "int"
    /\ rg_before = IntV(-32768)
    /\ RegOf(rg_blocks, "int") = <<32768>>
    /\ rg_value = IntV(-32768)

-----------------------------------------------------------------------------
(* An MQTT bridge and its broker: the bridge subscribes to the topic of      *)
(* every mapping (_on_connect), so the broker delivers to the bridge what    *)
(* the bridge publishes.  One tag with a mapping is followed; no other       *)
(* client publishes.                                                         *)

MaxEchoOps == 6

\* the tags followed: Door_1_Target and Door_1_Motor
EchoTags == {Door_PLC_State["Door_1_Target"], Door_PLC_State["Door_1_Motor"]}

\* the values the control logic or another bridge gives the tag
EchoValues(tag) ==
    IF tag.datatype = "bool" THEN {BoolV(TRUE), BoolV(FALSE)}
    ELSE {IntV(0), IntV(1), IntV(2)}

\* the bridge is started with MQTTTagMapping(topic, tag, writable)
EchoStarted ==
    /\ ec_tag \in EchoTags
    /\ ec_mapping \in {[writable |-> w, last_value |-> NoneV] : w \in BOOLEAN}
    /\ ec_pending = EmptyMap
    /\ ec_inflight = <<>>
    /\ ec_ops = 0
    /\ ec_last = "none"

\* MQTT_IO_Module.write_outputs with the gate open: _publish_tag publishes
\* str(value) when get_payload_to_send gives a payload (only_send_changed),
\* and the broker sends it on to the subscribers of the topic
EchoWriteOutputs ==
    /\ ec_ops < MaxEchoOps
    /\ IF HasPayloadToSend(ec_mapping, ec_tag, TRUE)
       THEN /\ ec_mapping' = [ec_mapping EXCEPT !.last_value = TagGet(ec_tag)]
            /\ ec_inflight' = Append(ec_inflight, PyStr(TagGet(ec_tag)))
       ELSE UNCHANGED <<ec_mapping, ec_inflight>>
    /\ ec_ops' = ec_ops + 1
    /\ ec_last' = "write_outputs"
    /\ UNCHANGED <<ec_tag, ec_pending>>

\* the control logic or another bridge's read_inputs: tag.set(value)
EchoTagSet ==
    /\ ec_ops < MaxEchoOps
    /\ \E v \in EchoValues(ec_tag) : v # TagGet(ec_tag) /\ ec_tag' = TagSet(ec_tag, v)
    /\ ec_ops' = ec_ops + 1
    /\ ec_last' = "tag_set"
    /\ UNCHANGED <<ec_mapping, ec_pending, ec_inflight>>

\* MQTT_IO_Module._on_message for the next payload the broker delivers: a
\* writable mapping sets the tag and the payload is stored in pending_inputs
EchoOnMessage ==
    /\ ec_ops < MaxEchoOps
    /\ ec_inflight # <<>>
    /\ LET r == SetTagFromPayload(ec_mapping, ec_tag, Head(ec_inflight))
       IN /\ ec_tag' = r.tag
          /\ ec_pending' = IF ec_mapping.writable /\ ~r.raised
                           THEN StagePending(ec_pending, "tag", Head(ec_inflight))
                           ELSE ec_pending
    /\ ec_inflight' = Tail(ec_inflight)
    /\ ec_ops' = ec_ops + 1
    /\ ec_last' = "on_message"
    /\ UNCHANGED ec_mapping

\* MQTT_IO_Module.read_inputs: the pending payload is applied and the map
\* cleared
EchoReadInputs ==
    /\ ec_ops < MaxEchoOps
    /\ ec_tag' = IF "tag" \in DOMAIN ec_pending
                 THEN SetTagFromPayload(ec_mapping, ec_tag, ec_pending["tag"]).tag
                 ELSE ec_tag
    /\ ec_pending' = MqttClearPending(ec_pending)
    /\ ec_ops' = ec_ops + 1
    /\ ec_last' = "read_inputs"
    /\ UNCHANGED <<ec_mapping, ec_inflight>>

NextEcho ==
    \/ EchoWriteOutputs /\ UNCHANGED restOfEcho
    \/ EchoTagSet /\ UNCHANGED restOfEcho
    \/ EchoOnMessage /\ UNCHANGED restOfEcho
    \/ EchoReadInputs /\ UNCHANGED restOfEcho

InitEcho == MainIdle /\ OxyIdle /\ MapIdle /\ PidIdle /\ StateIdle /\ BridgesIdle /\ FloatIdle /\ LoopIdle /\ RegIdle /\ EchoStarted /\ SimIdle /\ DoorIdle /\ MultiIdle

\* an MQTT bridge that receives what it publishes
SpecEcho == InitEcho /\ [][NextEcho]_vars

\* C33: processing a message that carries a value the bridge itself has
\* published never changes a tag, neither in _on_message nor in the
\* read_inputs that applies the pending payload: a tag that changed after the
\* publish is not set back to the published value.
C33_EchoChangesNoTag ==
    [][ (ec_ops' # ec_ops /\ ec_last' \in {"on_message", "read_inputs"}) =>
            ec_tag' = ec_tag ]_vars

-----------------------------------------------------------------------------
(* Simulation.run (common/simulation.py) with the entities of main.py: every *)
(* start(), step() and stop() returns or raises, and the user may interrupt  *)
(* a call or the sleep (KeyboardInterrupt).                                  *)

MaxSimCycles == 2

\* Simulation.entities after the add_entity calls of main()
Entities == <<"PhysicalEnvironment", "Heater_PLC", "Door_PLC", "Oxygen_PLC">>

\* what a call or the sleep ends with
Outcomes == {"returns", "Exception", "KeyboardInterrupt"}

\* a finally clause whose loop ends at the first stop() that raises
AfterStopLeaves(idx, outcome) ==
    IF outcome = "returns" /\ idx < Len(Entities) THEN [at |-> "stop", idx |-> idx + 1]
    ELSE [at |-> "done", idx |-> 0]

\* the finally clause of Simulation.run: "try: entity.stop() except: pass"
\* goes on with the next entity whatever stop() ends with
AfterStop(idx, outcome) ==
    IF idx < Len(Entities) THEN [at |-> "stop", idx |-> idx + 1]
    ELSE [at |-> "done", idx |-> 0]

\* Simulation.run is called
SimConstructed ==
    /\ sm_pc = [at |-> "start", idx |-> 1]
    /\ sm_cycle = 0
    /\ sm_exit = "none"
    /\ sm_started = <<>>
    /\ sm_stops = <<>>

\* the try body is left: the finally clause begins with the first entity
SimLeave(outcome) ==
    /\ sm_exit' = outcome
    /\ sm_pc' = [at |-> "stop", idx |-> 1]

\* "for entity in self.entities: entity.start()"
SimEntityStart ==
    /\ sm_pc.at = "start"
    /\ \E o \in Outcomes :
         IF o = "returns"
         THEN /\ sm_started' = Append(sm_started, Entities[sm_pc.idx])
              /\ sm_pc' = IF sm_pc.idx < Len(Entities)
                          THEN [sm_pc EXCEPT !.idx = sm_pc.idx + 1]
                          ELSE [at |-> "step", idx |-> 1]
              /\ UNCHANGED sm_exit
         ELSE SimLeave(o) /\ UNCHANGED sm_started
    /\ UNCHANGED <<sm_cycle, sm_stops>>

\* "for entity in self.entities: entity.step(self.config.simdt)"
SimEntityStep ==
    /\ sm_pc.at = "step"
    /\ \E o \in Outcomes :
         IF o = "returns"
         THEN /\ sm_pc' = IF sm_pc.idx < Len(Entities)
                          THEN [sm_pc EXCEPT !.idx = sm_pc.idx + 1]
                          ELSE [at |-> "sleep", idx |-> 0]
              /\ UNCHANGED sm_exit
         ELSE SimLeave(o)
    /\ UNCHANGED <<sm_cycle, sm_started, sm_stops>>

\* time.sleep(self.config.dt): the next iteration, or the user's interrupt
SimSleep ==
    /\ sm_pc.at = "sleep"
    /\ \/ /\ sm_cycle < MaxSimCycles
          /\ sm_cycle' = sm_cycle + 1
          /\ sm_pc' = [at |-> "step", idx |-> 1]
          /\ UNCHANGED sm_exit
       \/ /\ SimLeave("KeyboardInterrupt")
          /\ UNCHANGED sm_cycle
    /\ UNCHANGED <<sm_started, sm_stops>>

\* the finally clause: entity.stop() inside try / except: pass
SimEntityStop ==
    /\ sm_pc.at = "stop"
    /\ \E o \in Outcomes :
         /\ sm_stops' = Append(sm_stops, [entity |-> Entities[sm_pc.idx],
                                         raised |-> o # "returns"])
         /\ sm_pc' = AfterStop(sm_pc.idx, o)
    /\ UNCHANGED <<sm_cycle, sm_exit, sm_started>>

NextSim ==
    \/ SimEntityStart /\ UNCHANGED restOfSim
    \/ SimEntityStep /\ UNCHANGED restOfSim
    \/ SimSleep /\ UNCHANGED restOfSim
    \/ SimEntityStop /\ UNCHANGED restOfSim

InitSim == MainIdle /\ OxyIdle /\ MapIdle /\ PidIdle /\ StateIdle /\ BridgesIdle /\ FloatIdle /\ LoopIdle /\ RegIdle /\ EchoIdle /\ SimConstructed /\ DoorIdle /\ MultiIdle

\* Simulation.run from its call to its return
SpecSim == InitSim /\ [][NextSim]_vars

\* C40: when Simulation.run has left its loop, for an interrupt or for an
\* error of a start() or step(), stop() is called on the entities in
\* registration order, once each, and when run ends it has been called on
\* every entity, whichever of the stop() calls raised.
C40_StopCalledOnEveryEntity ==
    /\ Len(sm_stops) <= Len(Entities)
    /\ \A k \in DOMAIN sm_stops : sm_stops[k].entity = Entities[k]
    /\ sm_pc.at = "done" => Len(sm_stops) = Len(Entities)
    /\ sm_stops # <<>> => sm_exit # "none"

\* run has ended after the start() of the second entity raised: the stop()
\* of the first entity raised and the later entities, never started, were
\* stopped all the same
C40_Witness ==
    /\ sm_pc.at = "done"
    /\ sm_exit = "Exception"
    /\ sm_started = <<Entities[1]>>
    /\ sm_stops[1].raised
    /\ ~sm_stops[Len(Entities)].raised
    /\ Len(sm_stops) = Len(Entities)

-----------------------------------------------------------------------------
(* The ticks of main.py for door 1: PhysicalEnvironment.step, then the scan  *)
(* of the Door PLC with the modules [DoorOPCUAModule, DoorPhysicalEnvModule],*)
(* while an OPC-UA client writes the node of Door_1_Target at any moment.    *)

\* the tags DoorOPCUAModule asks to bind writable
DoorOpcuaAskedWritable == {"Door_1_Target"}

\* main(): the entities as constructed and started, before the first tick
DoorStarted ==
    /\ dr_state = Door_PLC_State
    /\ dr_nodes = [n \in DoorTagNames |-> TagGet(Door_PLC_State[n])]
    /\ dr_open = DoorFull
    /\ dr_motors = "off"
    /\ dr_pc = "phys_step"

\* PhysicalEnvironment.step: step_doors
DoorPhysStep ==
    /\ dr_pc = "phys_step"
    /\ dr_open' = StepDoors(dr_open, dr_motors)
    /\ dr_pc' = "opcua_read"
    /\ UNCHANGED <<dr_state, dr_nodes, dr_motors>>

\* PLC._input_scan, first module: OPCUA_IO_Module.read_inputs
DoorOpcuaRead ==
    /\ dr_pc = "opcua_read"
    /\ dr_state' = OpcuaReadInputs(dr_state, dr_nodes, DoorOpcuaAskedWritable)
    /\ dr_pc' = "phys_read"
    /\ UNCHANGED <<dr_nodes, dr_open, dr_motors>>

\* PLC._input_scan, second module: DoorPhysicalEnvModule.read_inputs
DoorPhysRead ==
    /\ dr_pc = "phys_read"
    /\ dr_state' = DoorPhysReadInputs(dr_state, dr_open)
    /\ dr_pc' = "control"
    /\ UNCHANGED <<dr_nodes, dr_open, dr_motors>>

\* PLC.step: _control_logic
DoorControl ==
    /\ dr_pc = "control"
    /\ dr_state' = DoorControlLogic(dr_state)
    /\ dr_pc' = "opcua_write"
    /\ UNCHANGED <<dr_nodes, dr_open, dr_motors>>

\* PLC._output_update, first module: OPCUA_IO_Module.write_outputs
DoorOpcuaWrite ==
    /\ dr_pc = "opcua_write"
    /\ dr_nodes' = OpcuaWriteOutputs(dr_state, dr_nodes)
    /\ dr_pc' = "phys_write"
    /\ UNCHANGED <<dr_state, dr_open, dr_motors>>

\* PLC._output_update, second module: DoorPhysicalEnvModule.write_outputs;
\* then Simulation.run sleeps and begins the next tick
DoorPhysWrite ==
    /\ dr_pc = "phys_write"
    /\ dr_motors' = ToMotorState(TagGet(dr_state["Door_1_Motor"]).v)
    /\ dr_pc' = "phys_step"
    /\ UNCHANGED <<dr_state, dr_nodes, dr_open>>

\* an OPC-UA client writes the node of Door_1_Target, the only writable one
DoorClientWrite ==
    /\ \E b \in BOOLEAN : dr_nodes' = [dr_nodes EXCEPT !["Door_1_Target"] = BoolV(b)]
    /\ UNCHANGED <<dr_state, dr_open, dr_motors, dr_pc>>

\* the steps of the thread of Simulation.run
DoorTick ==
    \/ DoorPhysStep /\ UNCHANGED restOfDoor
    \/ DoorOpcuaRead /\ UNCHANGED restOfDoor
    \/ DoorPhysRead /\ UNCHANGED restOfDoor
    \/ DoorControl /\ UNCHANGED restOfDoor
    \/ DoorOpcuaWrite /\ UNCHANGED restOfDoor
    \/ DoorPhysWrite /\ UNCHANGED restOfDoor

NextDoor ==
    \/ DoorTick
    \/ DoorClientWrite /\ UNCHANGED restOfDoor

InitDoor == MainIdle /\ OxyIdle /\ MapIdle /\ PidIdle /\ StateIdle /\ BridgesIdle /\ FloatIdle /\ LoopIdle /\ RegIdle /\ EchoIdle /\ SimIdle /\ DoorStarted /\ MultiIdle

SpecDoor == InitDoor /\ [][NextDoor]_vars

\* the "while True" loop of Simulation.run goes on with its next statement;
\* nothing obliges a client to write
SpecDoorFair == SpecDoor /\ WF_vars(DoorTick)

\* the door is at the end position of the target and the motor tag is 0
DoorAtRest(target) ==
    /\ dr_pc # "none"
    /\ Truthy(TagGet(dr_state["Door_1_Target"])) = target
    /\ dr_open = (IF target THEN DoorFull ELSE 0)
    /\ TagGet(dr_state["Door_1_Motor"]) = IntV(0)

\* C39: door_open stays within 0..100 %; once the door is at the end position
\* of the target with the motor tag 0, it stays so in every step that leaves
\* the target tag unchanged; and if the target tag is constant from some
\* moment on, the ticks eventually bring the door to that end position with
\* the motor tag 0, for good.
C39_DoorReachesTarget ==
    /\ [](dr_pc # "none" => dr_open \in 0..DoorFull)
    /\ [][\A t \in BOOLEAN :
            (DoorAtRest(t) /\ dr_state'["Door_1_Target"] = dr_state["Door_1_Target"])
                => DoorAtRest(t)']_vars
    /\ \A t \in BOOLEAN :
         <>[](dr_pc # "none" /\ Truthy(TagGet(dr_state["Door_1_Target"])) = t)
            => <>[]DoorAtRest(t)

\* the door, open at the start, was closed by the ticks after a client set
\* the target to False: it is fully closed, and the motor is off again
C39_Witness ==
    /\ DoorAtRest(FALSE)
    /\ dr_motors = "off"
    /\ dr_pc = "phys_step"

-----------------------------------------------------------------------------
(* A PLC whose module list holds an OPC-UA bridge and a Modbus bridge that   *)
(* both expose one writable int tag; a client of either bridge writes the    *)
(* tag between two scans.                                                    *)

MaxScans == 3

\* the tag's value at construction
MultiInitial == IntV(0)

\* the values a client writes
MultiClientValues == {IntV(1), IntV(2)}

\* the orders the two bridges can have in PLC.modules
ModuleOrders == {<<"opcua", "modbus">>, <<"modbus", "opcua">>}

NoClientWrite == [bridge |-> "none", value |-> NoneV]

\* the PLC is constructed and started: node and register hold the tag's value
MultiStarted ==
    /\ mu_modules \in ModuleOrders
    /\ mu_tag = MultiInitial
    /\ mu_node = MultiInitial
    /\ mu_reg = ConvertToRegisters(MultiInitial, "int")
    /\ mu_pc = [at |-> "idle", idx |-> 0]
    /\ mu_client = NoClientWrite
    /\ mu_seen = NoneV
    /\ mu_scans = 0

\* a client sets the node (OPC-UA) or the holding register (Modbus) between
\* two scans; it is the only client write before the next scan
MultiClientWrite ==
    /\ mu_pc.at = "idle"
    /\ mu_client = NoClientWrite
    /\ \E bridge \in {"opcua", "modbus"}, v \in MultiClientValues :
         /\ mu_client' = [bridge |-> bridge, value |-> v]
         /\ IF bridge = "opcua"
            THEN mu_node' = v /\ UNCHANGED mu_reg
            ELSE mu_reg' = ConvertToRegisters(v, "int") /\ UNCHANGED mu_node
    /\ UNCHANGED <<mu_modules, mu_tag, mu_pc, mu_seen, mu_scans>>

\* PLC.step begins a scan
MultiStep ==
    /\ mu_pc.at = "idle"
    /\ mu_scans < MaxScans
    /\ mu_pc' = [at |-> "input", idx |-> 1]
    /\ UNCHANGED <<mu_modules, mu_tag, mu_node, mu_reg, mu_client, mu_seen, mu_scans>>

\* read_inputs of one bridge: OPCUAVarFromTag.read_input sets the tag to the
\* node's value, Modbus_IO_Module.read_inputs to the decoded register
BridgeReadInputs(module, node, reg) ==
    IF module = "opcua" THEN node ELSE ConvertFromRegisters(reg, "int")

\* PLC._input_scan: read_inputs of the modules in list order
MultiInputScan ==
    /\ mu_pc.at = "input"
    /\ mu_tag' = BridgeReadInputs(mu_modules[mu_pc.idx], mu_node, mu_reg)
    /\ mu_pc' = IF mu_pc.idx < Len(mu_modules)
                THEN [mu_pc EXCEPT !.idx = mu_pc.idx + 1]
                ELSE [at |-> "control", idx |-> 0]
    /\ UNCHANGED <<mu_modules, mu_node, mu_reg, mu_client, mu_seen, mu_scans>>

\* PLC.step: _control_logic reads the tag and leaves it as it is
MultiControlLogic ==
    /\ mu_pc.at = "control"
    /\ mu_seen' = mu_tag
    /\ mu_pc' = [at |-> "output", idx |-> 1]
    /\ UNCHANGED <<mu_modules, mu_tag, mu_node, mu_reg, mu_client, mu_scans>>

\* PLC._output_update: write_outputs of the modules in list order
MultiOutputUpdate ==
    /\ mu_pc.at = "output"
    /\ IF mu_modules[mu_pc.idx] = "opcua"
       THEN mu_node' = mu_tag /\ UNCHANGED mu_reg
       ELSE mu_reg' = ConvertToRegisters(mu_tag, "int") /\ UNCHANGED mu_node
    /\ IF mu_pc.idx < Len(mu_modules)
       THEN /\ mu_pc' = [mu_pc EXCEPT !.idx = mu_pc.idx + 1]
            /\ UNCHANGED <<mu_client, mu_scans>>
       ELSE /\ mu_pc' = [at |-> "idle", idx |-> 0]
            /\ mu_client' = NoClientWrite
            /\ mu_scans' = mu_scans + 1
    /\ UNCHANGED <<mu_modules, mu_tag, mu_seen>>

NextMulti ==
    \/ MultiClientWrite /\ UNCHANGED restOfMulti
    \/ MultiStep /\ UNCHANGED restOfMulti
    \/ MultiInputScan /\ UNCHANGED restOfMulti
    \/ MultiControlLogic /\ UNCHANGED restOfMulti
    \/ MultiOutputUpdate /\ UNCHANGED restOfMulti

InitMulti == MainIdle /\ OxyIdle /\ MapIdle /\ PidIdle /\ StateIdle /\ BridgesIdle /\ FloatIdle /\ LoopIdle /\ RegIdle /\ EchoIdle /\ SimIdle /\ DoorIdle /\ MultiStarted

\* the scans of a PLC with two bridges on one tag
SpecMulti == InitMulti /\ [][NextMulti]_vars

\* C32: when a client changed the tag through one bridge between two scans,
\* with no other client write, the control logic of the next scan has read
\* the client's value, whichever bridge was written and whatever the order
\* of the bridges in the module list.
C32_ControlSeesClientValue ==
    (mu_pc.at = "output" /\ mu_client # NoClientWrite) => mu_seen = mu_client.value

====
